---- MODULE Spec2Model ----
(***************************************************************************)
(* Flowdos client-side API layer: the auth store (auth-helper.ts), the     *)
(* request clients (api.ts, chat-api-adapter.ts, api-conversation-         *)
(* wrapper.ts, reminder_client.ts, chat api client), the error normaliser  *)
(* (chatkit error handling) and the conversation cache                     *)
(* (conversation-storage.ts).                                              *)
(*                                                                         *)
(* Encoding of JavaScript values:                                          *)
(*   - a value that may be null is an option: Null == <<>>, Some(v) ==     *)
(*     <<v>>;                                                              *)
(*   - an object is a record; a property that is undefined is a key that   *)
(*     is absent from the record's DOMAIN, except where a caller passes    *)
(*     an explicit undefined;                                              *)
(*   - an object that JSON.stringify writes (a user, a conversation) is    *)
(*     the sequence of its members <<key, value>> in insertion order,      *)
(*     which is the order of the members in the text written; a member     *)
(*     that holds undefined is <<key>>;                                    *)
(*   - a string that the code inspects (message.includes) is a tuple of    *)
(*     characters; an opaque string is a TLA+ string;                      *)
(*   - a text held in localStorage is a tagged tuple: <<"str", s>> for a   *)
(*     plain string, <<"obj", members>> and <<"arr", items>> for the       *)
(*     output of JSON.stringify.                                           *)
(***************************************************************************)
EXTENDS Integers, Sequences, FiniteSets, TLC

VARIABLES
    hasWindow,        \* typeof window !== "undefined"
    localStorage,     \* key -> option of stored text
    location,         \* window.location.href, Null until a redirect
    inflight,         \* fetch calls issued and not yet answered
    now,              \* the clock read by new Date()
    raw,              \* the error-like value under classification
    classified,       \* option: outcome of handleChatKitError(raw)
    reclassified,     \* option: outcome of handleChatKitError on that result
    onErrorCallback,  \* ChatKitErrorBoundary.onErrorCallback is set
    callbackLog,      \* the errors the callback has been invoked with
    input,            \* the argument under validation
    contexts,         \* per browsing context: a saveConversation call between
                      \* its read and its write
    debounced,        \* the closure of debounce: its timer, calls and runs
    loadingState,     \* the state of useLoadingState
    chatState,        \* the state of useChatState
    simulation,       \* simulateLoading: loop counter and reported progress
    last              \* the last operation, its arguments and its outcome

vars == <<hasWindow, localStorage, location, inflight, now,
          raw, classified, reclassified, onErrorCallback, callbackLog, input,
          contexts, debounced, loadingState, chatState, simulation, last>>

authVars == <<location, inflight>>
errVars  == <<raw, classified, reclassified, onErrorCallback, callbackLog>>
valVars  == <<input>>
uiVars   == <<contexts, debounced, loadingState, chatState, simulation>>

----------------------------------------------------------------------------
(* Bounds *)

MaxInflight == 1
MaxTime == 1
MaxCallbackLog == 2
MaxConcurrent == 2
MaxClock == 3
MaxCalls == 3
MaxDurationSteps == 20

----------------------------------------------------------------------------
(* JavaScript values *)

Null == <<>>
Some(v) == <<v>>
\* a property that holds undefined is the member <<key>>, without a value:
\* no string stands for undefined, the string 'undefined' is a string like
\* any other
Undefined(k) == <<k>>

Range(s) == { s[i] : i \in 1..Len(s) }

\* String.prototype.includes
Includes(s, sub) ==
    \E i \in 1..(Len(s) - Len(sub) + 1) : SubSeq(s, i, i + Len(sub) - 1) = sub

\* object spread {...a, ...b} of objects that are held as React state and
\* never written as text
Spread(a, b) ==
    [k \in (DOMAIN a) \cup (DOMAIN b) |-> IF k \in DOMAIN b THEN b[k] ELSE a[k]]

\* An object whose text is written to localStorage is the sequence of its
\* members, in the order in which the object got them: <<key, value>> for a
\* property that holds a string, <<key>> for one that holds undefined.
Keys(o) == { o[i][1] : i \in 1..Len(o) }

\* the property read o[k] of a property that holds a string
Get(o, k) == o[CHOOSE i \in 1..Len(o) : o[i][1] = k][2]

\* the assignment of the member m to the object: a property the object has
\* keeps its place, a new one goes to the end
Put(o, m) ==
    IF m[1] \in Keys(o)
    THEN [i \in 1..Len(o) |-> IF o[i][1] = m[1] THEN m ELSE o[i]]
    ELSE Append(o, m)

RECURSIVE SpreadMembers(_, _)
\* object spread {...a, ...b} and the object literal {...a, k: v, ...}: the
\* members of b are assigned to a copy of a one after the other
SpreadMembers(a, b) ==
    IF b = <<>> THEN a
    ELSE SpreadMembers(Put(a, Head(b)), Tail(b))

\* JSON.stringify of an object: its members in their order, the properties
\* whose value is undefined left out
JsonStringifyObject(o) ==
    <<"obj", SelectSeq(o, LAMBDA m : Len(m) = 2)>>

\* JSON.stringify of an array of objects
JsonStringifyArray(a) ==
    <<"arr", [i \in 1..Len(a) |-> JsonStringifyObject(a[i])] >>

IsJsonText(text) == Len(text) = 2 /\ text[1] \in {"obj", "arr"}

\* JSON.parse of the members of an object text: the object gets its
\* properties in the order of the text
JsonParseMembers(members) == SpreadMembers(<<>>, members)

\* JSON.parse: [ok |-> TRUE, value |-> v], or [ok |-> FALSE] for the
\* SyntaxError thrown on a text that is not JSON
JsonParse(text) ==
    IF ~IsJsonText(text) THEN [ok |-> FALSE]
    ELSE IF text[1] = "obj"
         THEN [ok |-> TRUE, value |-> JsonParseMembers(text[2])]
         ELSE [ok |-> TRUE,
               value |-> [i \in 1..Len(text[2]) |->
                             JsonParseMembers(text[2][i][2])]]

----------------------------------------------------------------------------
(* localStorage *)

TOKEN_KEY == "access_token"
USER_KEY == "user"
CONVERSATION_STORAGE_KEY == "chatkit_conversations"
CURRENT_CONVERSATION_KEY == "chatkit_current_conversation"

StorageKeys == {TOKEN_KEY, USER_KEY, CONVERSATION_STORAGE_KEY,
                CURRENT_CONVERSATION_KEY}

EmptyStorage == [k \in StorageKeys |-> Null]

\* localStorage.getItem: the stored text as an option
GetItem(ls, key) == ls[key]

\* localStorage.setItem
SetItem(ls, key, text) == [ls EXCEPT ![key] = Some(text)]

\* localStorage.removeItem
RemoveItem(ls, key) == [ls EXCEPT ![key] = Null]

----------------------------------------------------------------------------
(* Auth store (auth-helper.ts) *)

Tokens == {"t1", "t2"}
\* the user objects of the server's answers; their members come in the
\* order of the answer's text
Users == { << <<"id", "u1">>, <<"name", "Ann">>, <<"email", "ann@x">> >>,
           << <<"name", "Bob">>, <<"id", "u2">>, <<"email", "bob@x">> >> }

\* storeAuth that forgets the user record
StoreAuth_TokenOnly(win, ls, token, user) ==
    IF win THEN SetItem(ls, TOKEN_KEY, <<"str", token>>) ELSE ls

\* storeAuth(token, user): the storage after the call
StoreAuth(win, ls, token, user) ==
    IF win
    THEN SetItem(SetItem(ls, TOKEN_KEY, <<"str", token>>),
                 USER_KEY, JsonStringifyObject(user))
    ELSE ls

\* getToken(): option of the token string
GetToken(win, ls) ==
    IF ~win THEN Null
    ELSE IF GetItem(ls, TOKEN_KEY) = Null THEN Null
    ELSE Some(GetItem(ls, TOKEN_KEY)[1][2])

\* getStoredUser(): option of the user object
GetStoredUser(win, ls) ==
    IF ~win THEN Null
    ELSE LET userJson == GetItem(ls, USER_KEY)
         IN  IF userJson = Null
                \/ (userJson[1][1] = "str" /\ userJson[1][2] = "")
             THEN Null
             ELSE LET parsed == JsonParse(userJson[1])
                  IN  IF parsed.ok THEN Some(parsed.value) ELSE Null

\* clearAuth that leaves the user record behind
ClearAuth_TokenOnly(win, ls) ==
    IF win THEN RemoveItem(ls, TOKEN_KEY) ELSE ls

\* clearAuth(): the storage after the call
ClearAuth(win, ls) ==
    IF win THEN RemoveItem(RemoveItem(ls, TOKEN_KEY), USER_KEY) ELSE ls

\* isAuthenticated()
IsAuthenticated(win, ls) == GetToken(win, ls) # Null

\* if (token): null and the empty string are falsy
TokenTruthy(tok) == tok # Null /\ tok[1] # ""

----------------------------------------------------------------------------
(* Request clients *)

ApiClients == {"apiRequest", "login", "register"}
ReminderClients == {"ReminderClient.request", "ReminderClient.deleteReminder"}
WrapperClients == {"fetchUserConversations", "fetchConversation",
                   "createConversation", "updateConversation",
                   "deleteConversation"}
AdapterClients == {"adapter.sendMessage", "adapter.updateLastConversation",
                   "adapter.createChatKitSession"}
ChatClients == {"ChatAPIClient.sendMessage"}
\* the request clients: the client operations that send the stored token
Clients == ApiClients \cup ReminderClients \cup WrapperClients
           \cup AdapterClients \cup ChatClients
\* healthCheck calls fetch itself, without apiRequest and without headers
HealthClients == {"healthCheck"}

Statuses == {200, 204, 401, 500}

\* response.ok
Ok(status) == status >= 200 /\ status <= 299

\* the body of an AuthResponse
AuthBodies == { [access_token |-> t, user |-> u] : t \in Tokens, u \in Users }
ErrorBodies == { [detail |-> "denied"] }

\* an answer of the backend: a status and an option of the parsed JSON body
\* (Null when the body is empty or is not JSON); status 0 stands for a fetch
\* call that rejects
NetworkFailure == [status |-> 0, body |-> Null]
Responses(client) ==
    { [status |-> st, body |-> b] :
        st \in Statuses,
        b \in {Null} \cup { Some(x) : x \in
                 IF client \in {"login", "register"} THEN AuthBodies
                 ELSE IF client \in HealthClients
                 THEN { [status |-> "healthy"] } \cup ErrorBodies
                 ELSE ErrorBodies } }
    \cup {NetworkFailure}

\* the value of the header Authorization: Bearer <token>
Bearer(token) == <<"Bearer", token>>

\* apiRequest, ReminderClient.request, ReminderClient.deleteReminder up to
\* the fetch call: the Authorization header is added if (token)
ApiRequestHeaders(tok) ==
    IF TokenTruthy(tok) THEN Some(Bearer(tok[1])) ELSE Null

\* the conversation wrapper and chat adapter functions up to the fetch call:
\* Null when the function throws 'User not authenticated' before any fetch,
\* else the headers of the fetch call
WrapperHeaders(tok) ==
    IF ~TokenTruthy(tok) THEN Null ELSE Some(Some(Bearer(tok[1])))

\* ChatAPIClient.sendMessage up to the fetch call: token = getToken() || ''
ChatClientHeaders(tok) ==
    Some(Bearer(IF TokenTruthy(tok) THEN tok[1] ELSE ""))

\* handleUnauthorized(): the storage and the location after the call
HandleUnauthorized(win, ls, loc) ==
    [ls |-> ClearAuth(win, ls),
     location |-> IF win THEN Some("/login?redirect=") ELSE loc]

\* apiRequest from the answer of fetch on: storage, location and the
\* ApiResponse returned
ApiRequest(win, ls, loc, resp) ==
    IF resp = NetworkFailure
    THEN [ls |-> ls, location |-> loc,
          result |-> [data |-> Null, error |-> Some("fetch failed"),
                      status |-> 0]]
    ELSE IF resp.status = 401
    THEN LET h == HandleUnauthorized(win, ls, loc)
         IN  [ls |-> h.ls, location |-> h.location,
              result |-> [data |-> Null,
                          error |-> Some("Unauthorized - Please log in again"),
                          status |-> 401]]
    ELSE IF ~Ok(resp.status)
    THEN [ls |-> ls, location |-> loc,
          result |-> [data |-> Null,
                      error |-> Some(IF resp.body # Null
                                        /\ "detail" \in DOMAIN resp.body[1]
                                     THEN resp.body[1].detail
                                     ELSE "HTTP status"),
                      status |-> resp.status]]
    ELSE IF resp.body = Null
    THEN \* response.json() rejects and the catch block answers with status 0
         [ls |-> ls, location |-> loc,
          result |-> [data |-> Null, error |-> Some("Unexpected end of JSON"),
                      status |-> 0]]
    ELSE [ls |-> ls, location |-> loc,
          result |-> [data |-> resp.body, error |-> Null,
                      status |-> resp.status]]

\* login and register that store whatever auth body the backend sent, without
\* the test of response.data
Login_StoresAnyBody(win, ls, loc, resp) ==
    LET r == ApiRequest(win, ls, loc, resp)
    IN  IF resp.body # Null /\ "access_token" \in DOMAIN resp.body[1]
        THEN [r EXCEPT !.ls = StoreAuth(win, r.ls, resp.body[1].access_token,
                                        resp.body[1].user)]
        ELSE r

\* login and register from the answer of fetch on: apiRequest, then
\* storeAuth if (response.data)
Login(win, ls, loc, resp) ==
    LET r == ApiRequest(win, ls, loc, resp)
    IN  IF r.result.data # Null
        THEN [r EXCEPT !.ls = StoreAuth(win, r.ls,
                                        r.result.data[1].access_token,
                                        r.result.data[1].user)]
        ELSE r

\* the client operations that read the body of an ok response with
\* response.json(), which rejects when the body is empty or is not JSON
ParsesBody(client) ==
    client \notin {"ReminderClient.deleteReminder", "deleteConversation",
                   "adapter.updateLastConversation"}

\* ReminderClient.request and deleteReminder from the answer of fetch on
ReminderRequest(client, win, ls, loc, resp) ==
    IF resp = NetworkFailure
    THEN [ls |-> ls, location |-> loc, result |-> [threw |-> "TypeError"]]
    ELSE IF ~Ok(resp.status)
    THEN IF resp.status = 401
         THEN [ls |-> ClearAuth(win, ls), location |-> loc,
               result |-> [threw |-> "Authentication failed"]]
         ELSE [ls |-> ls, location |-> loc, result |-> [threw |-> "HTTP error"]]
    ELSE IF ParsesBody(client) /\ resp.body = Null
    THEN [ls |-> ls, location |-> loc, result |-> [threw |-> "SyntaxError"]]
    ELSE [ls |-> ls, location |-> loc, result |-> [status |-> resp.status]]

\* the conversation wrapper functions, the chat adapter functions and
\* ChatAPIClient.sendMessage from the answer of fetch on: a response that is
\* not ok is thrown as an Error, whatever its status
WrapperRequest(client, win, ls, loc, resp) ==
    IF resp = NetworkFailure
    THEN [ls |-> ls, location |-> loc, result |-> [threw |-> "TypeError"]]
    ELSE IF ~Ok(resp.status)
    THEN [ls |-> ls, location |-> loc, result |-> [threw |-> "HTTP error"]]
    ELSE IF ParsesBody(client) /\ resp.body = Null
    THEN [ls |-> ls, location |-> loc, result |-> [threw |-> "SyntaxError"]]
    ELSE [ls |-> ls, location |-> loc, result |-> [status |-> resp.status]]

\* healthCheck from the answer of fetch on: the parsed body is returned as
\* data with the status of the response, whatever that status is; a fetch
\* or a response.json() that rejects is answered with status 0; the auth
\* store and the location are never touched
HealthCheck(win, ls, loc, resp) ==
    IF resp = NetworkFailure
    THEN [ls |-> ls, location |-> loc,
          result |-> [data |-> Null, error |-> Some("fetch failed"),
                      status |-> 0]]
    ELSE IF resp.body = Null
    THEN [ls |-> ls, location |-> loc,
          result |-> [data |-> Null, error |-> Some("Unexpected end of JSON"),
                      status |-> 0]]
    ELSE [ls |-> ls, location |-> loc,
          result |-> [data |-> resp.body, error |-> Null,
                      status |-> resp.status]]

\* a client operation up to its fetch call: Null when it throws before
\* fetch, else the option of the Authorization header it sends
Headers(client, tok) ==
    IF client \in HealthClients
    THEN \* fetch is called without headers, whatever is stored
         Some(Null)
    ELSE IF client \in ApiClients \cup ReminderClients
    THEN Some(ApiRequestHeaders(tok))
    ELSE IF client \in WrapperClients \cup AdapterClients
    THEN WrapperHeaders(tok)
    ELSE Some(ChatClientHeaders(tok))

\* a client operation from the answer of fetch on
Complete(client, win, ls, loc, resp) ==
    IF client \in {"login", "register"} THEN Login(win, ls, loc, resp)
    ELSE IF client \in HealthClients THEN HealthCheck(win, ls, loc, resp)
    ELSE IF client = "apiRequest" THEN ApiRequest(win, ls, loc, resp)
    ELSE IF client \in ReminderClients
    THEN ReminderRequest(client, win, ls, loc, resp)
    ELSE WrapperRequest(client, win, ls, loc, resp)

----------------------------------------------------------------------------
(* Error normaliser (chatkit error handling) *)

\* a fixed message text that the code never inspects, as one unit
Text(s) == <<s>>

Fetch == <<"f", "e", "t", "c", "h">>

\* the values thrown as null and as undefined
RawNull == [nullish |-> "null"]
RawUndefined == [nullish |-> "undefined"]
IsNullish(e) == "nullish" \in DOMAIN e

RawTypes == {"server", "authentication"}
RawMessages == { <<>>, <<"b", "o", "o", "m">>, <<"f", "e", "t", "c">>,
                 <<"n", "o", " ", "f", "e", "t", "c", "h">> }
RawNames == {"TypeError", "Error"}
RawStatuses == {0, 401, 403, 404, 422, 429, 500, 502, 503, 504}

Opt(S) == {Null} \cup { Some(x) : x \in S }

\* the object with the given optional properties
MkObject(t, m, n, st) ==
    [k \in {x \in {"type"} : t # Null} \cup {x \in {"message"} : m # Null}
         \cup {x \in {"name"} : n # Null} \cup {x \in {"status"} : st # Null}
     |-> CASE k = "type" -> t[1]
           [] k = "message" -> m[1]
           [] k = "name" -> n[1]
           [] k = "status" -> st[1]]

RawErrors ==
    { MkObject(t, m, n, st) : t \in Opt(RawTypes), m \in Opt(RawMessages),
                              n \in Opt(RawNames), st \in Opt(RawStatuses) }
    \cup {RawNull, RawUndefined}

\* createChatKitError(type, message, status, details); status is an option
CreateChatKitError(type, message, status, details) ==
    IF status = Null
    THEN [type |-> type, message |-> message, details |-> details]
    ELSE [type |-> type, message |-> message, status |-> status[1],
          details |-> details]

\* handleChatKitError(error): [returns |-> e] or [throws |-> name]
HandleChatKitError(error) ==
    IF IsNullish(error) THEN [throws |-> "TypeError"]
    ELSE IF "type" \in DOMAIN error /\ error.type # ""
            /\ "message" \in DOMAIN error /\ error.message # <<>>
    THEN [returns |-> error]
    ELSE IF "name" \in DOMAIN error /\ error.name = "TypeError"
    THEN [returns |-> CreateChatKitError("network",
             Text("Network connection failed. Please check your internet connection."),
             Null, error)]
    ELSE IF "message" \notin DOMAIN error
    THEN \* error.message.includes on undefined
         [throws |-> "TypeError"]
    ELSE IF Includes(error.message, Fetch)
    THEN [returns |-> CreateChatKitError("network",
             Text("Network connection failed. Please check your internet connection."),
             Null, error)]
    ELSE IF "status" \in DOMAIN error /\ error.status # 0
    THEN CASE error.status = 401 ->
                [returns |-> CreateChatKitError("authentication",
                    Text("Authentication required. Please sign in to continue."),
                    Some(401), error)]
           [] error.status = 403 ->
                [returns |-> CreateChatKitError("authentication",
                    Text("Access denied. Please verify your permissions."),
                    Some(403), error)]
           [] error.status = 422 ->
                [returns |-> CreateChatKitError("validation",
                    Text("Invalid request data. Please check your input."),
                    Some(422), error)]
           [] error.status = 429 ->
                [returns |-> CreateChatKitError("server",
                    Text("Rate limit exceeded. Please try again later."),
                    Some(429), error)]
           [] error.status \in {500, 502, 503, 504} ->
                [returns |-> CreateChatKitError("server",
                    Text("Service temporarily unavailable. Please try again later."),
                    Some(error.status), error)]
           [] OTHER ->
                [returns |-> CreateChatKitError("server",
                    <<"Server error (", ToString(error.status),
                      "). Please try again.">>,
                    Some(error.status), error)]
    ELSE [returns |-> CreateChatKitError("unknown",
             Text("An unexpected error occurred. Please try again."),
             Null, error)]

\* what the promise returned by fn() settles to
FnOutcomes(e) == { [resolved |-> "data"], [rejected |-> e] }

\* ChatKitErrorBoundary.execute(fn) for a settled fn: the value the returned
\* promise resolves to, or the exception it rejects with, and the errors the
\* callback was invoked with
BoundaryExecute(outcome, hasCallback) ==
    IF "resolved" \in DOMAIN outcome
    THEN [result |-> [success |-> TRUE, data |-> outcome.resolved],
          called |-> <<>>]
    ELSE LET h == HandleChatKitError(outcome.rejected)
         IN  IF "throws" \in DOMAIN h
             THEN [result |-> [rejects |-> h.throws], called |-> <<>>]
             ELSE [result |-> [success |-> FALSE, error |-> h.returns],
                   called |-> IF hasCallback THEN <<h.returns>> ELSE <<>>]

\* the failed and successful responses given to validateApiResponse: a
\* status, the status text and an option of the parsed JSON body
PipelineStatuses == {200, 401, 403, 422, 429, 500, 503}
PipelineBodies ==
    { Null, Some([detail |-> Text("denied")]),
      Some([error |-> [message |-> Text("bad input")]]) }
PipelineResponses ==
    { [status |-> st, statusText |-> "status text", body |-> b] :
        st \in PipelineStatuses, b \in PipelineBodies }

\* the object {} that response.json().catch(() => ({})) gives
EmptyObject == [k \in {} |-> k]

\* validateApiResponse(response): [returns |-> body] or [throws |-> error]
ValidateApiResponse(response) ==
    IF ~Ok(response.status)
    THEN LET errorBody == IF response.body = Null THEN EmptyObject
                          ELSE response.body[1]
             errorMessage ==
                 IF "error" \in DOMAIN errorBody
                    /\ "message" \in DOMAIN errorBody.error
                    /\ errorBody.error.message # <<>>
                 THEN errorBody.error.message
                 ELSE IF "detail" \in DOMAIN errorBody
                         /\ errorBody.detail # <<>>
                 THEN errorBody.detail
                 ELSE <<"HTTP ", ToString(response.status), ": ",
                        response.statusText>>
         IN  [throws |-> CreateChatKitError("server", errorMessage,
                                            Some(response.status), errorBody)]
    ELSE IF response.body = Null
    THEN [throws |-> [name |-> "SyntaxError",
                      message |-> Text("Unexpected end of JSON input")]]
    ELSE [returns |-> response.body[1]]

----------------------------------------------------------------------------
(* Conversation cache (conversation-storage.ts) *)

ConversationIds == {"c1", "c2"}
UserIds == {"u1", "u2"}

\* new Date().toISOString() at clock value t
ToISOString(t) == ToString(t)

\* the ConversationMetadata objects passed to saveConversation; title may be
\* left out or passed as undefined, createdAt may be the empty string
ConversationInputs ==
    { << <<"id", c>>, <<"userId", u>>, <<"createdAt", "">>,
         <<"updatedAt", "">> >> : c \in ConversationIds, u \in UserIds }
    \cup
    { << <<"userId", u>>, <<"id", c>>, <<"updatedAt", "0">>,
         <<"createdAt", "0">>, <<"title", "A">> >> :
        c \in ConversationIds, u \in UserIds }
    \cup
    { << <<"id", c>>, <<"userId", u>>, Undefined("title"),
         <<"createdAt", "">>, <<"updatedAt", "">> >> :
        c \in ConversationIds, u \in UserIds }

\* a property read that is used as a condition: undefined and '' are falsy
Truthy(o, k) ==
    \E i \in 1..Len(o) : o[i][1] = k /\ Len(o[i]) = 2 /\ o[i][2] # ""

\* localStorage.getItem(key) || '[]' followed by JSON.parse
ParseAllConversations(ls) ==
    LET stored == GetItem(ls, CONVERSATION_STORAGE_KEY)
    IN  IF stored = Null \/ (stored[1][1] = "str" /\ stored[1][2] = "")
        THEN [ok |-> TRUE, value |-> <<>>]
        ELSE IF stored[1][1] = "arr" THEN JsonParse(stored[1])
        ELSE \* the statement throws: JSON.parse a SyntaxError, filter on a
             \* parsed value that is not an array a TypeError
             [ok |-> FALSE,
              throws |-> IF stored[1][1] = "obj" THEN "TypeError"
                         ELSE "SyntaxError"]

\* The outcome of a call of a cache operation is the storage ls it leaves
\* and, if it returns a value, the value returns; a call that lets an
\* exception escape has the field throws instead.

\* try { body } catch (error) { console.error(...); handled }
Catch(body, handled) == IF "throws" \in DOMAIN body THEN handled ELSE body

\* getUserConversations(userId): the outcome of the call
GetUserConversationsCall(win, ls, userId) ==
    IF ~win THEN [ls |-> ls, returns |-> <<>>]
    ELSE Catch(LET all == ParseAllConversations(ls)
               IN  IF ~all.ok THEN [ls |-> ls, throws |-> all.throws]
                   ELSE [ls |-> ls,
                         returns |->
                             SelectSeq(all.value,
                                 LAMBDA conv : Get(conv, "userId") = userId)],
               [ls |-> ls, returns |-> <<>>])

\* getUserConversations(userId): the list returned
GetUserConversations(win, ls, userId) ==
    GetUserConversationsCall(win, ls, userId).returns

\* a lookup that never finds the id
FindIndex_NotFound(a, id) == 0

\* Array.prototype.findIndex by id: 0 stands for -1
FindIndex(a, id) ==
    IF \E i \in 1..Len(a) : Get(a[i], "id") = id
    THEN CHOOSE i \in 1..Len(a) :
            Get(a[i], "id") = id /\ \A j \in 1..(i - 1) : Get(a[j], "id") # id
    ELSE 0

\* saveConversation(conversation): the outcome of the call. The call reads
\* the clock (new Date()) once to update a record and to add one that has a
\* createdAt, and twice to add one that has none: t is the first value read
\* and later the second, which is t or after it
SaveConversation(win, ls, conversation, t, later) ==
    IF ~win THEN [ls |-> ls]
    ELSE Catch(
         LET existing == GetUserConversations(win, ls,
                                              Get(conversation, "userId"))
             existingIndex == FindIndex(existing, Get(conversation, "id"))
             updated ==
                 IF existingIndex # 0
                 THEN [existing EXCEPT ![existingIndex] =
                          SpreadMembers(
                              SpreadMembers(existing[existingIndex],
                                            conversation),
                              << <<"updatedAt", ToISOString(t)>> >>)]
                 ELSE Append(existing,
                          SpreadMembers(conversation,
                              << <<"createdAt",
                                   IF Truthy(conversation, "createdAt")
                                   THEN Get(conversation, "createdAt")
                                   ELSE ToISOString(t)>>,
                                 <<"updatedAt",
                                   IF Truthy(conversation, "createdAt")
                                   THEN ToISOString(t)
                                   ELSE ToISOString(later)>> >>))
         IN  [ls |-> SetItem(ls, CONVERSATION_STORAGE_KEY,
                           JsonStringifyArray(updated))],
         [ls |-> ls])

\* saveConversation from the list it has read on: the upsert into that list,
\* with t and later the clock values read as in SaveConversation
Upsert(existing, conversation, t, later) ==
    LET existingIndex == FindIndex(existing, Get(conversation, "id"))
    IN  IF existingIndex # 0
        THEN [existing EXCEPT ![existingIndex] =
                 SpreadMembers(
                     SpreadMembers(existing[existingIndex], conversation),
                     << <<"updatedAt", ToISOString(t)>> >>)]
        ELSE Append(existing,
                 SpreadMembers(conversation,
                     << <<"createdAt", IF Truthy(conversation, "createdAt")
                                       THEN Get(conversation, "createdAt")
                                       ELSE ToISOString(t)>>,
                        <<"updatedAt", IF Truthy(conversation, "createdAt")
                                       THEN ToISOString(t)
                                       ELSE ToISOString(later)>> >>))

\* a write step that reads the list again and upserts into what is stored now
WriteStep_ReadsAgain(win, ls, existing, conversation, t, later) ==
    SetItem(ls, CONVERSATION_STORAGE_KEY,
            JsonStringifyArray(
                Upsert(GetUserConversations(win, ls,
                                            Get(conversation, "userId")),
                       conversation, t, later)))

\* the write step of saveConversation: localStorage.setItem of the list read
\* earlier with the conversation upserted; the storage after it
WriteStep(win, ls, existing, conversation, t, later) ==
    SetItem(ls, CONVERSATION_STORAGE_KEY,
            JsonStringifyArray(Upsert(existing, conversation, t, later)))

\* removeConversation that filters the whole list by id, whatever the user
RemoveConversation_AnyUser(win, ls, conversationId, userId) ==
    IF ~win THEN [ls |-> ls]
    ELSE Catch(LET all == ParseAllConversations(ls)
               IN  IF ~all.ok THEN [ls |-> ls, throws |-> all.throws]
                   ELSE [ls |-> SetItem(ls, CONVERSATION_STORAGE_KEY,
                                    JsonStringifyArray(
                                        SelectSeq(all.value,
                                            LAMBDA conv :
                                                Get(conv, "id")
                                                    # conversationId)))],
               [ls |-> ls])

\* removeConversation that parses the stored list before it enters its try
\* block
RemoveConversation_ParseOutside(win, ls, conversationId, userId) ==
    IF ~win THEN [ls |-> ls]
    ELSE LET all == ParseAllConversations(ls)
         IN  IF ~all.ok THEN [ls |-> ls, throws |-> all.throws]
             ELSE Catch([ls |-> SetItem(ls, CONVERSATION_STORAGE_KEY,
                                    JsonStringifyArray(
                                        SelectSeq(all.value,
                                            LAMBDA conv :
                                                Get(conv, "userId") # userId)
                                        \o SelectSeq(
                                               GetUserConversations(win, ls,
                                                                    userId),
                                               LAMBDA conv :
                                                   Get(conv, "id")
                                                       # conversationId)))],
                        [ls |-> ls])

\* removeConversation(conversationId, userId): the outcome of the call
RemoveConversation(win, ls, conversationId, userId) ==
    IF ~win THEN [ls |-> ls]
    ELSE Catch(
         LET existing == GetUserConversations(win, ls, userId)
             filtered == SelectSeq(existing,
                                   LAMBDA conv :
                                       Get(conv, "id") # conversationId)
             all == ParseAllConversations(ls)
         IN  IF ~all.ok THEN [ls |-> ls, throws |-> all.throws]
             ELSE LET otherUsersConversations ==
                          SelectSeq(all.value,
                                    LAMBDA conv : Get(conv, "userId") # userId)
                  IN  [ls |-> SetItem(ls, CONVERSATION_STORAGE_KEY,
                                  JsonStringifyArray(otherUsersConversations
                                                     \o filtered))],
         [ls |-> ls])

\* getCurrentConversationId(): the outcome of the call, which returns the
\* option of the id
GetCurrentConversationId(win, ls) ==
    IF ~win THEN [ls |-> ls, returns |-> Null]
    ELSE Catch([ls |-> ls,
                returns |->
                    IF GetItem(ls, CURRENT_CONVERSATION_KEY) = Null THEN Null
                    ELSE Some(GetItem(ls, CURRENT_CONVERSATION_KEY)[1][2])],
               [ls |-> ls, returns |-> Null])

\* setCurrentConversationId(conversationId): the outcome of the call
SetCurrentConversationId(win, ls, conversationId) ==
    IF ~win THEN [ls |-> ls]
    ELSE Catch(IF conversationId # Null /\ conversationId[1] # ""
               THEN [ls |-> SetItem(ls, CURRENT_CONVERSATION_KEY,
                                    <<"str", conversationId[1]>>)]
               ELSE [ls |-> RemoveItem(ls, CURRENT_CONVERSATION_KEY)],
               [ls |-> ls])

\* clearUserConversations that drops the conversations of every user
ClearUserConversations_AllUsers(win, ls, userId) ==
    IF ~win THEN [ls |-> ls]
    ELSE Catch(LET all == ParseAllConversations(ls)
               IN  IF ~all.ok THEN [ls |-> ls, throws |-> all.throws]
                   ELSE [ls |-> SetItem(ls, CONVERSATION_STORAGE_KEY,
                                        JsonStringifyArray(<<>>))],
               [ls |-> ls])

\* clearUserConversations that never touches the current-conversation
\* pointer
ClearUserConversations_KeepsPointer(win, ls, userId) ==
    IF ~win THEN [ls |-> ls]
    ELSE Catch(LET all == ParseAllConversations(ls)
               IN  IF ~all.ok THEN [ls |-> ls, throws |-> all.throws]
                   ELSE [ls |-> SetItem(ls, CONVERSATION_STORAGE_KEY,
                                    JsonStringifyArray(
                                        SelectSeq(all.value,
                                            LAMBDA conv :
                                                Get(conv, "userId")
                                                    # userId)))],
               [ls |-> ls])

\* clearUserConversations(userId): the outcome of the call
ClearUserConversations(win, ls, userId) ==
    IF ~win THEN [ls |-> ls]
    ELSE Catch(
         LET all == ParseAllConversations(ls)
         IN  IF ~all.ok THEN [ls |-> ls, throws |-> all.throws]
             ELSE LET filtered ==
                          SelectSeq(all.value,
                                    LAMBDA conv : Get(conv, "userId") # userId)
                      ls1 == SetItem(ls, CONVERSATION_STORAGE_KEY,
                                     JsonStringifyArray(filtered))
                      currentId == GetCurrentConversationId(win, ls1).returns
                  IN  IF currentId # Null /\ currentId[1] # ""
                         /\ \E i \in 1..Len(all.value) :
                                /\ Get(all.value[i], "id") = currentId[1]
                                /\ Get(all.value[i], "userId") = userId
                      THEN SetCurrentConversationId(win, ls1, Null)
                      ELSE [ls |-> ls1],
         [ls |-> ls])

----------------------------------------------------------------------------
(* Validation (chatkit data validation) *)

MaxMessageLength == 4000
MaxIdLength == 100
MaxMetadataSize == 10000

\* the characters removed by String.prototype.trim that the inputs use
Whitespace == {" ", "\t", "\n"}

\* String.prototype.trim
Trim(s) ==
    LET leading ==
            Cardinality({ i \in 1..Len(s) :
                            \A j \in 1..i : s[j] \in Whitespace })
        trailing ==
            Cardinality({ i \in 1..Len(s) :
                            \A j \in i..Len(s) : s[j] \in Whitespace })
    IN  IF leading = Len(s) THEN <<>>
        ELSE SubSeq(s, leading + 1, Len(s) - trailing)

\* /[<>'"&]/.test(message)
HasSpecialCharacter(message) ==
    \E i \in 1..Len(message) : message[i] \in {"<", ">", "'", "\"", "&"}

\* a ValidationResult; warnings is left out when it is undefined
ValidationResult(errors, warnings) ==
    IF warnings = <<>>
    THEN [isValid |-> errors = <<>>, errors |-> errors]
    ELSE [isValid |-> errors = <<>>, errors |-> errors, warnings |-> warnings]

\* validateMessage with the length test written >= 4000
ValidateMessage_OffByOne(message) ==
    ValidationResult(
        (IF message = <<>> \/ Len(Trim(message)) = 0
         THEN <<Text("Message cannot be empty")>> ELSE <<>>)
        \o (IF Len(message) >= MaxMessageLength
            THEN << <<"Message exceeds maximum length of 4000 characters (",
                      ToString(Len(message)), " characters)">> >>
            ELSE <<>>),
        IF HasSpecialCharacter(message)
        THEN <<Text("Message contains special characters that may be sanitized by the server")>>
        ELSE <<>>)

\* validateMessage without the test of the trimmed length
ValidateMessage_NoTrim(message) ==
    ValidationResult(
        (IF message = <<>>
         THEN <<Text("Message cannot be empty")>> ELSE <<>>)
        \o (IF Len(message) > MaxMessageLength
            THEN << <<"Message exceeds maximum length of 4000 characters (",
                      ToString(Len(message)), " characters)">> >>
            ELSE <<>>),
        IF HasSpecialCharacter(message)
        THEN <<Text("Message contains special characters that may be sanitized by the server")>>
        ELSE <<>>)

\* validateMessage(message)
ValidateMessage(message) ==
    ValidationResult(
        (IF message = <<>> \/ Len(Trim(message)) = 0
         THEN <<Text("Message cannot be empty")>> ELSE <<>>)
        \o (IF Len(message) > MaxMessageLength
            THEN << <<"Message exceeds maximum length of 4000 characters (",
                      ToString(Len(message)), " characters)">> >>
            ELSE <<>>),
        IF HasSpecialCharacter(message)
        THEN <<Text("Message contains special characters that may be sanitized by the server")>>
        ELSE <<>>)

\* validateConversationId(id); id is an option, Null for null
ValidateConversationId(id) ==
    IF id = Null THEN [isValid |-> TRUE, errors |-> <<>>]
    ELSE ValidationResult(
             IF id[1] = <<>>
             THEN <<Text("Conversation ID must be a valid string or null")>>
             ELSE IF Len(id[1]) > MaxIdLength
             THEN <<Text("Conversation ID exceeds maximum length of 100 characters")>>
             ELSE <<>>,
             <<>>)

Digits == {"0", "1", "2", "3", "4", "5", "6", "7", "8", "9"}
HexDigits == Digits \cup {"a", "b", "c", "d", "e", "f"}
                    \cup {"A", "B", "C", "D", "E", "F"}

\* /^[0-9a-f]{8}-[0-9a-f]{4}-[0-5][0-9a-f]{3}-[089ab][0-9a-f]{3}-[0-9a-f]{12}$/i
UuidRegexTest(s) ==
    /\ Len(s) = 36
    /\ \A i \in 1..36 :
          IF i \in {9, 14, 19, 24} THEN s[i] = "-"
          ELSE IF i = 15 THEN s[i] \in {"0", "1", "2", "3", "4", "5"}
          ELSE IF i = 20 THEN s[i] \in {"0", "8", "9", "a", "b", "A", "B"}
          ELSE s[i] \in HexDigits

\* validateUserId(userId)
ValidateUserId(userId) ==
    ValidationResult(
        (IF userId = <<>>
         THEN <<Text("User ID must be a valid string")>>
         ELSE IF Len(userId) > MaxIdLength
         THEN <<Text("User ID exceeds maximum length of 100 characters")>>
         ELSE <<>>)
        \o (IF ~UuidRegexTest(userId)
            THEN <<Text("User ID must be a valid UUID format")>>
            ELSE <<>>),
        <<>>)

\* the property names every object finds on Object.prototype
ObjectPrototypeKeys == {"constructor", "__proto__", "hasOwnProperty",
                        "isPrototypeOf", "propertyIsEnumerable",
                        "toLocaleString", "toString", "valueOf"}

\* a metadata object: its own properties as a sequence of [key, length of
\* the string value], its prototype, and whether it refers to itself
MetadataObject(own, proto, circular) ==
    [kind |-> "object", own |-> own, proto |-> proto, circular |-> circular]

OwnKeys(obj) == { obj.own[i].key : i \in 1..Len(obj.own) }

\* key in obj: own properties and those of the prototype chain
In(key, obj) ==
    \/ key \in OwnKeys(obj)
    \/ (obj.proto = "Object.prototype" /\ key \in ObjectPrototypeKeys)

\* obj.hasOwnProperty(key)
HasOwnProperty(obj, key) == key \in OwnKeys(obj)

RECURSIVE MembersLength(_)
\* the length of the members "key":"value" of JSON.stringify, commas included
MembersLength(own) ==
    IF own = <<>> THEN 0
    ELSE Len(own[1].key) + 2 + 1 + own[1].length + 2
         + (IF Len(own) > 1 THEN 1 ELSE 0)
         + MembersLength(Tail(own))

\* JSON.stringify(metadata).length
JsonLength(obj) == 2 + MembersLength(obj.own)

ForbiddenKeys == <<"__proto__", "constructor", "prototype">>

\* validateMetadata(metadata): [returns |-> result], or [throws |-> name]
\* when JSON.stringify throws on a circular structure
ValidateMetadata(metadata) ==
    IF metadata.kind \in {"null", "undefined"}
    THEN [returns |-> [isValid |-> TRUE, errors |-> <<>>]]
    ELSE IF metadata.kind # "object"
    THEN [returns |-> [isValid |-> FALSE,
                       errors |-> <<Text("Metadata must be an object")>>]]
    ELSE IF metadata.circular THEN [throws |-> "TypeError"]
    ELSE LET metadataSize == JsonLength(metadata)
             sizeErrors ==
                 IF metadataSize > MaxMetadataSize
                 THEN << <<"Metadata exceeds maximum size of 10KB (",
                           ToString(metadataSize), " characters)">> >>
                 ELSE <<>>
             present == SelectSeq(ForbiddenKeys, LAMBDA k : In(k, metadata))
             keyErrors == [i \in 1..Len(present) |->
                              <<"Metadata cannot contain '", present[i],
                                "' key">>]
         IN  [returns |-> ValidationResult(sizeErrors \o keyErrors, <<>>)]

\* validateChatRequest(request): [returns |-> result] or [throws |-> name];
\* conversation_id and metadata are undefined when the key is absent
ValidateChatRequest(request) ==
    LET messageValidation == ValidateMessage(request.message)
        messageErrors == IF ~messageValidation.isValid
                         THEN messageValidation.errors ELSE <<>>
        warnings == IF ~messageValidation.isValid
                       /\ "warnings" \in DOMAIN messageValidation
                    THEN messageValidation.warnings ELSE <<>>
        conversationErrors ==
            IF "conversation_id" \in DOMAIN request
            THEN LET conversationValidation ==
                         ValidateConversationId(request.conversation_id)
                 IN  IF ~conversationValidation.isValid
                     THEN conversationValidation.errors ELSE <<>>
            ELSE <<>>
        metadataValidation ==
            IF "metadata" \in DOMAIN request
               /\ request.metadata.kind # "undefined"
            THEN ValidateMetadata(request.metadata)
            ELSE [returns |-> [isValid |-> TRUE, errors |-> <<>>]]
    IN  IF "throws" \in DOMAIN metadataValidation THEN metadataValidation
        ELSE [returns |-> ValidationResult(
                 messageErrors \o conversationErrors
                    \o (IF ~metadataValidation.returns.isValid
                        THEN metadataValidation.returns.errors ELSE <<>>),
                 warnings)]

RECURSIVE ReplaceEach(_, _, _)
\* the characters of s with every c replaced by the characters of r
ReplaceEach(s, c, r) ==
    IF s = <<>> THEN <<>>
    ELSE (IF s[1] = c THEN r ELSE <<s[1]>>) \o ReplaceEach(Tail(s), c, r)

\* String.prototype.replace(/c/g, r)
ReplaceAll(s, c, r) ==
    IF \A i \in 1..Len(s) : s[i] # c THEN s ELSE ReplaceEach(s, c, r)

Quot == <<"&", "q", "u", "o", "t", ";">>
Apos == <<"&", "#", "3", "9", ";">>
Amp == <<"&", "a", "m", "p", ";">>

\* sanitizeMessage(message)
SanitizeMessage(message) ==
    LET stripped == SelectSeq(message, LAMBDA ch : ch \notin {"<", ">"})
    IN  ReplaceAll(ReplaceAll(ReplaceAll(stripped, "\"", Quot), "'", Apos),
                   "&", Amp)

\* validateChatResponse(response); response is an option of an object
ValidateChatResponse(response) ==
    IF response = Null
    THEN [isValid |-> FALSE, errors |-> <<Text("Response must be an object")>>]
    ELSE ValidationResult(
             (IF ~HasOwnProperty(response[1], "conversation_id")
              THEN <<Text("Response must include conversation_id")>>
              ELSE <<>>)
             \o (IF ~HasOwnProperty(response[1], "response")
                    /\ ~HasOwnProperty(response[1], "message")
                 THEN <<Text("Response must include response or message field")>>
                 ELSE <<>>)
             \o (IF ~HasOwnProperty(response[1], "status")
                 THEN <<Text("Response must include status field")>>
                 ELSE <<>>),
             <<>>)

\* validateApiEndpoint(userId, endpoint)
ValidateApiEndpoint(userId, endpoint) ==
    LET userIdValidation == ValidateUserId(userId)
    IN  ValidationResult(
            (IF ~userIdValidation.isValid THEN userIdValidation.errors
             ELSE <<>>)
            \o (IF endpoint = <<>>
                THEN <<Text("Endpoint must be a valid string")>>
                ELSE IF endpoint[1] # "/"
                THEN <<Text("Endpoint must start with \"/\"")>>
                ELSE <<>>),
            <<>>)

\* prepareChatRequest that sanitizes before it looks at the validation
PrepareChatRequest_AlwaysSanitizes(request) ==
    LET validation == ValidateChatRequest(request)
    IN  IF "throws" \in DOMAIN validation THEN validation
        ELSE [returns |->
                 [request |-> [request EXCEPT
                                  !.message = SanitizeMessage(request.message)],
                  validation |-> validation.returns]]

\* prepareChatRequest(request): [returns |-> [request, validation]] or
\* [throws |-> name]
PrepareChatRequest(request) ==
    LET validation == ValidateChatRequest(request)
    IN  IF "throws" \in DOMAIN validation THEN validation
        ELSE IF ~validation.returns.isValid
        THEN [returns |-> [request |-> request,
                           validation |-> validation.returns]]
        ELSE [returns |->
                 [request |-> [request EXCEPT
                                  !.message = SanitizeMessage(request.message)],
                  validation |-> validation.returns]]

----------------------------------------------------------------------------
(* State machine *)

\* the operations of the conversation cache
CacheOps == {"getUserConversations", "saveConversation", "removeConversation",
             "clearUserConversations", "getCurrentConversationId",
             "setCurrentConversationId"}

\* no validator argument
NoInput == [kind |-> "none"]

\* the browsing contexts (tabs) that share one localStorage
Tabs == {"tab1", "tab2"}

\* no saveConversation call is under way in any context
IdleContexts == [tab \in Tabs |-> Null]

\* the closure of debounce(func, delay) before any call: timeoutId = null, no
\* timer is pending and nothing has been called or run
InitialDebounced == [timeoutId |-> Null, timers |-> {}, log |-> <<>>]

\* the number of calls of the debounced function so far
CallCount(d) == Len(SelectSeq(d.log, LAMBDA e : e.kind = "call"))

\* a call of the debounced function that leaves the pending timer running
DebouncedCall_NoClear(d, delay, args, t) ==
    LET id == CallCount(d) + 1
    IN  [timeoutId |-> Some(id),
         timers |-> d.timers \cup {[id |-> id, due |-> t + delay,
                                    args |-> args]},
         log |-> Append(d.log, [kind |-> "call", at |-> t, args |-> args])]

\* a call of the debounced function at time t: clearTimeout(timeoutId) if
\* (timeoutId), then timeoutId = setTimeout(() => func(...args), delay)
DebouncedCall(d, delay, args, t) ==
    LET id == CallCount(d) + 1
        kept == IF d.timeoutId # Null
                THEN { timer \in d.timers : timer.id # d.timeoutId[1] }
                ELSE d.timers
    IN  [timeoutId |-> Some(id),
         timers |-> kept \cup {[id |-> id, due |-> t + delay, args |-> args]},
         log |-> Append(d.log, [kind |-> "call", at |-> t, args |-> args])]

\* the timer callback () => func(...args) runs at time t
TimerFires(d, timer, t) ==
    [d EXCEPT !.timers = @ \ {timer},
              !.log = Append(@, [kind |-> "run", at |-> t,
                                 args |-> timer.args])]


\* useState<LoadingState>({isLoading: false, progress: 0, message: ''})
InitialLoadingState == [isLoading |-> FALSE, progress |-> 0, message |-> ""]

\* useState<ChatState>({isConnected: false, isActive: false, hasError: false,
\* lastActivity: null})
InitialChatState ==
    [isConnected |-> FALSE, isActive |-> FALSE, hasError |-> FALSE,
     lastActivity |-> Null]

\* startLoading(message), message an option: undefined takes the default
StartLoading(message) ==
    [isLoading |-> TRUE, progress |-> 0,
     message |-> IF message = Null THEN "Loading..." ELSE message[1]]

\* updateProgress(progress, message): message || prev.message
UpdateProgress(prev, progress, message) ==
    [prev EXCEPT !.progress = progress,
                 !.message = IF message = Null \/ message[1] = ""
                             THEN prev.message ELSE message[1]]

\* stopLoading()
StopLoading == [isLoading |-> FALSE, progress |-> 100, message |-> "Completed"]

\* setError that leaves isLoading as it is
SetError_KeepsLoading(prev, error) == Spread(prev, [error |-> error])

\* setError(error): {...prev, isLoading: false, error}
SetError(prev, error) ==
    Spread(prev, [isLoading |-> FALSE, error |-> error])

\* reset()
Reset == [isLoading |-> FALSE, progress |-> 0, message |-> ""]

\* connect()
Connect(prev, t) ==
    [prev EXCEPT !.isConnected = TRUE, !.hasError = FALSE,
                 !.lastActivity = Some(t)]

\* disconnect()
Disconnect(prev, t) ==
    [prev EXCEPT !.isConnected = FALSE, !.isActive = FALSE,
                 !.lastActivity = Some(t)]

\* activate()
Activate(prev, t) ==
    [prev EXCEPT !.isActive = TRUE, !.lastActivity = Some(t)]

\* deactivate()
Deactivate(prev, t) ==
    [prev EXCEPT !.isActive = FALSE, !.lastActivity = Some(t)]

\* setErrorState(hasError)
SetErrorState(prev, hasError, t) ==
    [prev EXCEPT !.hasError = hasError, !.lastActivity = Some(t)]

\* updateActivity()
UpdateActivity(prev, t) == [prev EXCEPT !.lastActivity = Some(t)]

\* simulateLoading before its loop: i = 0 and nothing reported
InitialSimulation == [i |-> 0, reports |-> <<>>, done |-> FALSE]

InitBase ==
    /\ contexts = IdleContexts
    /\ debounced = InitialDebounced
    /\ loadingState = InitialLoadingState
    /\ chatState = InitialChatState
    /\ simulation = InitialSimulation
    /\ hasWindow \in BOOLEAN
    /\ localStorage = EmptyStorage
    /\ location = Null
    /\ inflight = <<>>
    /\ now = 0
    /\ classified = Null
    /\ reclassified = Null
    /\ onErrorCallback = FALSE
    /\ callbackLog = <<>>
    /\ last = [op |-> "init"]

\* -- auth store and request clients

StoreAuthOp(token, user) ==
    /\ localStorage' = StoreAuth(hasWindow, localStorage, token, user)
    /\ last' = [op |-> "storeAuth", token |-> token, user |-> user,
                before |-> localStorage]
    /\ UNCHANGED <<valVars, uiVars, hasWindow, location, inflight, now, errVars>>

ClearAuthOp ==
    /\ localStorage' = ClearAuth(hasWindow, localStorage)
    /\ last' = [op |-> "clearAuth", before |-> localStorage]
    /\ UNCHANGED <<valVars, uiVars, hasWindow, location, inflight, now, errVars>>

\* logout()
Logout ==
    /\ localStorage' = ClearAuth(hasWindow, localStorage)
    /\ last' = [op |-> "logout", before |-> localStorage]
    /\ UNCHANGED <<valVars, uiVars, hasWindow, location, inflight, now, errVars>>

\* a client operation runs up to its fetch call, with fewer than limit fetch
\* calls awaiting their answer
Send(client, limit) ==
    /\ Len(inflight) < limit
    /\ LET tok == GetToken(hasWindow, localStorage)
           h == Headers(client, tok)
       IN  /\ inflight' = IF h = Null THEN inflight
                          ELSE Append(inflight,
                                      [client |-> client,
                                       authorization |-> h[1]])
           /\ last' = [op |-> "issue", client |-> client, token |-> tok,
                       fetched |-> h # Null,
                       authorization |-> IF h = Null THEN Null ELSE h[1]]
    /\ UNCHANGED <<valVars, uiVars, hasWindow, localStorage, location, now, errVars>>

Issue(client) == Send(client, MaxInflight)

\* fetch settles and the client operation runs to its end
Respond(i, resp) ==
    /\ i \in 1..Len(inflight)
    /\ resp \in Responses(inflight[i].client)
    /\ LET req == inflight[i]
           c == Complete(req.client, hasWindow, localStorage, location, resp)
       IN  /\ localStorage' = c.ls
           /\ location' = c.location
           /\ inflight' = SubSeq(inflight, 1, i - 1)
                             \o SubSeq(inflight, i + 1, Len(inflight))
           /\ last' = [op |-> "respond", client |-> req.client,
                       status |-> resp.status, body |-> resp.body,
                       result |-> c.result, before |-> localStorage]
    /\ UNCHANGED <<valVars, uiVars, hasWindow, now, errVars>>

\* -- asynchronous requests around a login

\* a client operation runs up to its fetch call while others await theirs
IssueConcurrent(client) == Send(client, MaxConcurrent)

InitRace == InitBase /\ hasWindow /\ raw = RawNull /\ input = NoInput

NextRace ==
    \/ Logout
    \/ \E c \in {"apiRequest", "login", "register"} : IssueConcurrent(c)
    \/ \E i \in 1..Len(inflight) :
          \E resp \in Responses(inflight[i].client) : Respond(i, resp)

SpecRace == InitRace /\ [][NextRace]_vars

InitAuth == InitBase /\ raw = RawNull /\ input = NoInput

NextAuth ==
    \/ \E t \in Tokens, u \in Users : StoreAuthOp(t, u)
    \/ ClearAuthOp
    \/ Logout
    \/ \E c \in Clients \cup HealthClients : Issue(c)
    \/ \E i \in 1..Len(inflight) :
          \E resp \in Responses(inflight[i].client) : Respond(i, resp)

SpecAuth == InitAuth /\ [][NextAuth]_vars

\* -- error normaliser and error boundary

Handle ==
    /\ classified = Null
    /\ classified' = Some(HandleChatKitError(raw))
    /\ last' = [op |-> "handleChatKitError"]
    /\ UNCHANGED <<valVars, uiVars, hasWindow, localStorage, authVars, now, raw, reclassified,
                   onErrorCallback, callbackLog>>

\* handleChatKitError applied to its own result
HandleAgain ==
    /\ classified # Null
    /\ "returns" \in DOMAIN classified[1]
    /\ reclassified = Null
    /\ reclassified' = Some(HandleChatKitError(classified[1].returns))
    /\ last' = [op |-> "handleChatKitError"]
    /\ UNCHANGED <<valVars, uiVars, hasWindow, localStorage, authVars, now, raw, classified,
                   onErrorCallback, callbackLog>>

\* ChatKitErrorBoundary.onError(callback)
OnError ==
    /\ ~onErrorCallback
    /\ onErrorCallback' = TRUE
    /\ last' = [op |-> "onError"]
    /\ UNCHANGED <<valVars, uiVars, hasWindow, localStorage, authVars, now, raw, classified,
                   reclassified, callbackLog>>

\* ChatKitErrorBoundary.execute(fn)
Execute(outcome) ==
    /\ Len(callbackLog) < MaxCallbackLog
    /\ LET x == BoundaryExecute(outcome, onErrorCallback)
       IN  /\ callbackLog' = callbackLog \o x.called
           /\ last' = [op |-> "execute", outcome |-> outcome,
                       result |-> x.result, called |-> x.called]
    /\ UNCHANGED <<valVars, uiVars, hasWindow, localStorage, authVars, now, raw, classified,
                   reclassified, onErrorCallback>>

\* ChatKitErrorBoundary.execute(() => validateApiResponse(response))
ExecuteValidateApiResponse(response) ==
    /\ Len(callbackLog) < MaxCallbackLog
    /\ LET v == ValidateApiResponse(response)
           outcome == IF "throws" \in DOMAIN v THEN [rejected |-> v.throws]
                      ELSE [resolved |-> v.returns]
           x == BoundaryExecute(outcome, onErrorCallback)
       IN  /\ callbackLog' = callbackLog \o x.called
           /\ last' = [op |-> "validateApiResponse",
                       status |-> response.status, outcome |-> outcome,
                       result |-> x.result, called |-> x.called]
    /\ UNCHANGED <<valVars, uiVars, hasWindow, localStorage, authVars, now, raw, classified,
                   reclassified, onErrorCallback>>

InitErr == InitBase /\ hasWindow /\ raw \in RawErrors /\ input = NoInput

NextErr ==
    \/ Handle
    \/ HandleAgain
    \/ OnError
    \/ \E outcome \in FnOutcomes(raw) : Execute(outcome)

SpecErr == InitErr /\ [][NextErr]_vars

\* -- failed responses through validateApiResponse and the error boundary

InitPipeline == InitBase /\ hasWindow /\ raw = RawNull /\ input = NoInput

NextPipeline ==
    \/ OnError
    \/ \E response \in PipelineResponses :
          ExecuteValidateApiResponse(response)

SpecPipeline == InitPipeline /\ [][NextPipeline]_vars

\* -- conversation cache

Tick ==
    /\ now < MaxTime
    /\ now' = now + 1
    /\ last' = [op |-> "tick"]
    /\ UNCHANGED <<valVars, uiVars, hasWindow, localStorage, authVars, errVars>>

\* saveConversation(conversation): the clock is at now at the first read and
\* may have moved on by the second
SaveConversationOp(conversation) ==
    /\ \E later \in now..MaxTime :
          \E out \in {SaveConversation(hasWindow, localStorage, conversation,
                                      now, later)} :
             /\ localStorage' = out.ls
             /\ now' = later
             /\ last' = [op |-> "saveConversation",
                         conversation |-> conversation, outcome |-> out,
                         before |-> localStorage]
    /\ UNCHANGED <<valVars, uiVars, hasWindow, authVars, errVars>>

RemoveConversationOp(conversationId, userId) ==
    /\ \E out \in {RemoveConversation(hasWindow, localStorage,
                                      conversationId, userId)} :
          /\ localStorage' = out.ls
          /\ last' = [op |-> "removeConversation", id |-> conversationId,
                      userId |-> userId, outcome |-> out,
                      before |-> localStorage]
    /\ UNCHANGED <<valVars, uiVars, hasWindow, authVars, now, errVars>>

ClearUserConversationsOp(userId) ==
    /\ \E out \in {ClearUserConversations(hasWindow, localStorage, userId)} :
          /\ localStorage' = out.ls
          /\ last' = [op |-> "clearUserConversations", userId |-> userId,
                      outcome |-> out, before |-> localStorage]
    /\ UNCHANGED <<valVars, uiVars, hasWindow, authVars, now, errVars>>

SetCurrentConversationIdOp(conversationId) ==
    /\ \E out \in {SetCurrentConversationId(hasWindow, localStorage,
                                            conversationId)} :
          /\ localStorage' = out.ls
          /\ last' = [op |-> "setCurrentConversationId",
                      id |-> conversationId, outcome |-> out,
                      before |-> localStorage]
    /\ UNCHANGED <<valVars, uiVars, hasWindow, authVars, now, errVars>>

\* getUserConversations(userId) called by the view code
GetUserConversationsOp(userId) ==
    /\ \E out \in {GetUserConversationsCall(hasWindow, localStorage,
                                            userId)} :
          /\ localStorage' = out.ls
          /\ last' = [op |-> "getUserConversations", userId |-> userId,
                      outcome |-> out, before |-> localStorage]
    /\ UNCHANGED <<valVars, uiVars, hasWindow, authVars, now, errVars>>

\* getCurrentConversationId() called by the view code
GetCurrentConversationIdOp ==
    /\ \E out \in {GetCurrentConversationId(hasWindow, localStorage)} :
          /\ localStorage' = out.ls
          /\ last' = [op |-> "getCurrentConversationId", outcome |-> out,
                      before |-> localStorage]
    /\ UNCHANGED <<valVars, uiVars, hasWindow, authVars, now, errVars>>

InitConv == InitBase /\ raw = RawNull /\ input = NoInput

NextConv ==
    \/ Tick
    \/ \E conversation \in ConversationInputs : SaveConversationOp(conversation)
    \/ \E c \in ConversationIds, u \in UserIds : RemoveConversationOp(c, u)
    \/ \E u \in UserIds : ClearUserConversationsOp(u)
    \/ \E c \in Opt(ConversationIds) : SetCurrentConversationIdOp(c)

SpecConv == InitConv /\ [][NextConv]_vars

\* -- conversation cache over a persisted list that is missing or damaged

\* the texts found under the conversation-list key: none, the empty string,
\* a text that is not JSON, and the JSON of an object instead of an array
DamagedTexts == { Null, Some(<<"str", "">>), Some(<<"str", "{not json">>),
                  Some(<<"obj", <<>> >>) }

InitStore ==
    /\ hasWindow \in BOOLEAN
    /\ localStorage \in
          { [EmptyStorage EXCEPT ![CONVERSATION_STORAGE_KEY] = t] :
              t \in IF hasWindow THEN DamagedTexts ELSE {Null} }
    /\ location = Null
    /\ inflight = <<>>
    /\ now = 0
    /\ raw = RawNull
    /\ classified = Null
    /\ reclassified = Null
    /\ onErrorCallback = FALSE
    /\ callbackLog = <<>>
    /\ input = NoInput
    /\ contexts = IdleContexts
    /\ debounced = InitialDebounced
    /\ loadingState = InitialLoadingState
    /\ chatState = InitialChatState
    /\ simulation = InitialSimulation
    /\ last = [op |-> "init"]

NextStore ==
    \/ \E u \in UserIds : GetUserConversationsOp(u)
    \/ GetCurrentConversationIdOp
    \/ \E conversation \in ConversationInputs : SaveConversationOp(conversation)
    \/ \E c \in ConversationIds, u \in UserIds : RemoveConversationOp(c, u)
    \/ \E u \in UserIds : ClearUserConversationsOp(u)
    \/ \E c \in Opt(ConversationIds) : SetCurrentConversationIdOp(c)

SpecStore == InitStore /\ [][NextStore]_vars

\* -- validation

MaxShortMessage == 2

MessageAlphabet == {"a", " ", "<", "&", "\""}

\* the string of n copies of ch
Repeat(ch, n) == [i \in 1..n |-> ch]

\* the messages under validation: every short string over the alphabet, a
\* string with each special character, a string of whitespace, and strings at
\* and over the limit
ShortMessages ==
    UNION { [1..n -> MessageAlphabet] : n \in 0..MaxShortMessage }
    \cup { <<"a", "<", "b", ">", "&", "'", "\"">>, <<" ", "\t", "\n">> }

Messages ==
    ShortMessages
    \cup { Repeat("a", MaxMessageLength), Repeat("a", MaxMessageLength + 1) }

ConversationIdInputs ==
    { Null, Some(<<>>), Some(<<"c", "1">>), Some(Repeat("c", MaxIdLength)),
      Some(Repeat("c", MaxIdLength + 1)) }

UserIdInputs ==
    { <<>>, <<"a", "b", "c">>, Repeat("a", MaxIdLength + 1),
      <<"1", "2", "3", "e", "4", "5", "6", "7", "-", "e", "8", "9", "b", "-", "4", "2", "d", "3", "-", "a", "4", "5", "6", "-", "4", "2", "6", "6", "1", "4", "1", "7", "4", "0", "0", "0">>,
      <<"1", "2", "3", "E", "4", "5", "6", "7", "-", "E", "8", "9", "B", "-", "4", "2", "D", "3", "-", "A", "4", "5", "6", "-", "4", "2", "6", "6", "1", "4", "1", "7", "4", "0", "0", "0">>,
      <<"1", "2", "3", "e", "4", "5", "6", "7", "-", "e", "8", "9", "b", "-", "7", "2", "d", "3", "-", "a", "4", "5", "6", "-", "4", "2", "6", "6", "1", "4", "1", "7", "4", "0", "0", "0">>,
      <<"1", "2", "3", "e", "4", "5", "6", "7", "-", "e", "8", "9", "b", "-", "4", "2", "d", "3", "-", "c", "4", "5", "6", "-", "4", "2", "6", "6", "1", "4", "1", "7", "4", "0", "0", "0">> }

\* the own property key with a string value of n characters
Property(key, n) == [key |-> key, length |-> n]

MetadataInputs ==
    { [kind |-> "null"], [kind |-> "undefined"], [kind |-> "string"],
      MetadataObject(<<>>, "Object.prototype", FALSE),
      MetadataObject(<<Property("a", 1)>>, "Object.prototype", FALSE),
      MetadataObject(<<Property("prototype", 1)>>, "Object.prototype", FALSE),
      MetadataObject(<<Property("a", 1)>>, "Object.prototype", TRUE),
      MetadataObject(<<>>, "null", FALSE),
      MetadataObject(<<Property("a", 1), Property("b", 2)>>, "null", FALSE),
      MetadataObject(<<Property("constructor", 1)>>, "null", FALSE),
      MetadataObject(<<Property("blob", MaxMetadataSize - 11)>>, "null",
                     FALSE),
      MetadataObject(<<Property("blob", MaxMetadataSize - 10)>>, "null",
                     FALSE) }

RequestMetadataInputs ==
    { [kind |-> "null"], [kind |-> "string"],
      MetadataObject(<<>>, "Object.prototype", FALSE),
      MetadataObject(<<Property("a", 1)>>, "Object.prototype", TRUE),
      MetadataObject(<<Property("a", 1), Property("b", 2)>>, "null", FALSE),
      MetadataObject(<<Property("constructor", 1)>>, "null", FALSE) }

\* the request {message, conversation_id?, metadata?}; an option that is
\* Null leaves the property out
MkRequest(message, conversationId, metadata) ==
    [k \in {"message"} \cup {x \in {"conversation_id"} : conversationId # Null}
         \cup {x \in {"metadata"} : metadata # Null}
     |-> CASE k = "message" -> message
           [] k = "conversation_id" -> conversationId[1]
           [] k = "metadata" -> metadata[1]]

RequestInputs ==
    { MkRequest(m, c, md) :
        m \in ShortMessages,
        c \in Opt({Null, Some(<<>>), Some(<<"c", "1">>),
                   Some(Repeat("c", MaxIdLength + 1))}),
        md \in Opt(RequestMetadataInputs) }

ResponseKeys == <<"conversation_id", "response", "message", "status">>

\* a parsed response body with the given own properties
MkResponse(keys) ==
    LET present == SelectSeq(ResponseKeys, LAMBDA k : k \in keys)
    IN  MetadataObject([i \in 1..Len(present) |-> Property(present[i], 1)],
                       "Object.prototype", FALSE)

ResponseInputs ==
    {Null} \cup { Some(MkResponse(keys)) : keys \in SUBSET Range(ResponseKeys) }

EndpointInputs == { <<>>, <<"/", "a">>, <<"a">> }

ValidatorInputs ==
    { [kind |-> "message", message |-> m] : m \in Messages }
    \cup { [kind |-> "conversationId", id |-> c] : c \in ConversationIdInputs }
    \cup { [kind |-> "userId", userId |-> u] : u \in UserIdInputs }
    \cup { [kind |-> "metadata", metadata |-> md] : md \in MetadataInputs }
    \cup { [kind |-> "request", request |-> r] : r \in RequestInputs }
    \cup { [kind |-> "response", response |-> r] : r \in ResponseInputs }
    \cup { [kind |-> "endpoint", userId |-> u, endpoint |-> e] :
             u \in UserIdInputs, e \in EndpointInputs }

\* a validator or sanitizer is applied to the argument and its outcome kept
Applied(op, outcome) ==
    /\ last' = [op |-> op, result |-> outcome]
    /\ UNCHANGED <<valVars, uiVars, hasWindow, localStorage, authVars, now, errVars>>

ValidateMessageOp ==
    /\ input.kind = "message"
    /\ Applied("validateMessage", [returns |-> ValidateMessage(input.message)])

SanitizeMessageOp ==
    /\ input.kind = "message"
    /\ Applied("sanitizeMessage", [returns |-> SanitizeMessage(input.message)])

ValidateConversationIdOp ==
    /\ input.kind = "conversationId"
    /\ Applied("validateConversationId",
               [returns |-> ValidateConversationId(input.id)])

ValidateUserIdOp ==
    /\ input.kind = "userId"
    /\ Applied("validateUserId", [returns |-> ValidateUserId(input.userId)])

ValidateMetadataOp ==
    /\ input.kind = "metadata"
    /\ Applied("validateMetadata", ValidateMetadata(input.metadata))

ValidateChatRequestOp ==
    /\ input.kind = "request"
    /\ Applied("validateChatRequest", ValidateChatRequest(input.request))

PrepareChatRequestOp ==
    /\ input.kind = "request"
    /\ Applied("prepareChatRequest", PrepareChatRequest(input.request))

ValidateChatResponseOp ==
    /\ input.kind = "response"
    /\ Applied("validateChatResponse",
               [returns |-> ValidateChatResponse(input.response)])

ValidateApiEndpointOp ==
    /\ input.kind = "endpoint"
    /\ Applied("validateApiEndpoint",
               [returns |-> ValidateApiEndpoint(input.userId, input.endpoint)])

InitVal == InitBase /\ hasWindow /\ raw = RawNull /\ input \in ValidatorInputs

NextVal ==
    \/ ValidateMessageOp
    \/ SanitizeMessageOp
    \/ ValidateConversationIdOp
    \/ ValidateUserIdOp
    \/ ValidateMetadataOp
    \/ ValidateChatRequestOp
    \/ PrepareChatRequestOp
    \/ ValidateChatResponseOp
    \/ ValidateApiEndpointOp

SpecVal == InitVal /\ [][NextVal]_vars

\* -- saveConversation in two browsing contexts

\* the conversations the two contexts save: those of one user without a
\* createdAt of their own
TabConversationInputs ==
    { conversation \in ConversationInputs :
        /\ Get(conversation, "userId") = "u1"
        /\ Get(conversation, "createdAt") = "" }

\* saveConversation up to and including the read of the stored list; where
\* there is no window the call returns at once and nothing is under way
SaveRead(tab, conversation) ==
    /\ contexts[tab] = Null
    /\ contexts' =
          IF hasWindow
          THEN [contexts EXCEPT ![tab] =
                   Some([conversation |-> conversation,
                         existing |->
                             GetUserConversations(hasWindow, localStorage,
                                 Get(conversation, "userId"))])]
          ELSE contexts
    /\ last' = IF hasWindow
               THEN [op |-> "saveConversation.read", tab |-> tab]
               ELSE [op |-> "saveConversation.return", tab |-> tab]
    /\ UNCHANGED <<valVars, debounced, loadingState, chatState, simulation,
                   hasWindow, localStorage, authVars, now, errVars>>

\* saveConversation from the upsert to the setItem call: the clock is at now
\* at the first read and may have moved on by the second
SaveWrite(tab) ==
    /\ contexts[tab] # Null
    /\ \E later \in now..MaxTime :
          /\ localStorage' = WriteStep(hasWindow, localStorage,
                                       contexts[tab][1].existing,
                                       contexts[tab][1].conversation, now,
                                       later)
          /\ now' = later
    /\ contexts' = [contexts EXCEPT ![tab] = Null]
    /\ last' = [op |-> "saveConversation.write", tab |-> tab,
                conversation |-> contexts[tab][1].conversation,
                existing |-> contexts[tab][1].existing,
                before |-> localStorage]
    /\ UNCHANGED <<valVars, debounced, loadingState, chatState, simulation,
                   hasWindow, authVars, errVars>>

InitTabs == InitBase /\ raw = RawNull /\ input = NoInput

NextTabs ==
    \/ \E tab \in Tabs, conversation \in TabConversationInputs :
          SaveRead(tab, conversation)
    \/ \E tab \in Tabs : SaveWrite(tab)

SpecTabs == InitTabs /\ [][NextTabs]_vars

\* -- debounce

DebounceDelays == {0, 1, 2}
DebounceArgs == {"a", "b"}

\* debounce(func, delay) has been called with the delay under study
Debouncing == input.kind = "delay"

\* the function returned by debounce is called with args
DebounceCall(args) ==
    /\ Debouncing
    /\ CallCount(debounced) < MaxCalls
    /\ now + input.delay <= MaxClock
    /\ debounced' = DebouncedCall(debounced, input.delay, args, now)
    /\ last' = [op |-> "debounced", args |-> args]
    /\ UNCHANGED <<valVars, contexts, loadingState, chatState, simulation,
                   hasWindow, localStorage, authVars, now, errVars>>

\* a timer that is due runs its callback
DebounceFire(timer) ==
    /\ Debouncing
    /\ timer \in debounced.timers
    /\ timer.due <= now
    /\ debounced' = TimerFires(debounced, timer, now)
    /\ last' = [op |-> "func", args |-> timer.args]
    /\ UNCHANGED <<valVars, contexts, loadingState, chatState, simulation,
                   hasWindow, localStorage, authVars, now, errVars>>

\* time passes
Advance ==
    /\ now < MaxClock
    /\ now' = now + 1
    /\ last' = [op |-> "advance"]
    /\ UNCHANGED <<valVars, uiVars, hasWindow, localStorage, authVars,
                   errVars>>

InitDebounce ==
    /\ InitBase
    /\ hasWindow
    /\ raw = RawNull
    /\ input \in { [kind |-> "delay", delay |-> d] : d \in DebounceDelays }

NextDebounce ==
    \/ \E args \in DebounceArgs : DebounceCall(args)
    \/ \E timer \in debounced.timers : DebounceFire(timer)
    \/ Advance

\* the event loop runs a callback that is due, and time goes on
SpecDebounce ==
    /\ InitDebounce
    /\ [][NextDebounce]_vars
    /\ WF_vars(\E timer \in debounced.timers : DebounceFire(timer))
    /\ WF_vars(Advance)

\* -- useLoadingState

LoadingMessages == {"", "Sending"}
ProgressValues == {0, 50, 100}
ErrorTexts == {"", "boom"}

\* a setter of useLoadingState is called and React applies the update
SetLoadingState(op, args, next) ==
    /\ loadingState' = next
    /\ last' = [op |-> op, args |-> args, before |-> loadingState]
    /\ UNCHANGED <<valVars, contexts, debounced, chatState, simulation,
                   hasWindow, localStorage, authVars, now, errVars>>

StartLoadingOp(message) ==
    SetLoadingState("startLoading", <<message>>, StartLoading(message))

UpdateProgressOp(progress, message) ==
    SetLoadingState("updateProgress", <<Some(ToString(progress)), message>>,
                    UpdateProgress(loadingState, progress, message))

StopLoadingOp == SetLoadingState("stopLoading", <<>>, StopLoading)

SetErrorOp(error) ==
    SetLoadingState("setError", <<Some(error)>>, SetError(loadingState, error))

ResetOp == SetLoadingState("reset", <<>>, Reset)

InitLoading == InitBase /\ hasWindow /\ raw = RawNull /\ input = NoInput

NextLoading ==
    \/ \E message \in Opt(LoadingMessages) : StartLoadingOp(message)
    \/ \E progress \in ProgressValues, message \in Opt(LoadingMessages) :
          UpdateProgressOp(progress, message)
    \/ StopLoadingOp
    \/ \E error \in ErrorTexts : SetErrorOp(error)
    \/ ResetOp

SpecLoading == InitLoading /\ [][NextLoading]_vars

\* -- useChatState

\* a setter of useChatState is called and React applies the update
SetChatState(op, next) ==
    /\ chatState' = next
    /\ last' = [op |-> op, before |-> chatState]
    /\ UNCHANGED <<valVars, contexts, debounced, loadingState, simulation,
                   hasWindow, localStorage, authVars, now, errVars>>

ConnectOp == SetChatState("connect", Connect(chatState, now))
DisconnectOp == SetChatState("disconnect", Disconnect(chatState, now))
ActivateOp == SetChatState("activate", Activate(chatState, now))
DeactivateOp == SetChatState("deactivate", Deactivate(chatState, now))
SetErrorStateOp(hasError) ==
    SetChatState("setErrorState", SetErrorState(chatState, hasError, now))
UpdateActivityOp ==
    SetChatState("updateActivity", UpdateActivity(chatState, now))

InitChat == InitBase /\ hasWindow /\ raw = RawNull /\ input = NoInput

NextChat ==
    \/ ConnectOp
    \/ DisconnectOp
    \/ ActivateOp
    \/ DeactivateOp
    \/ \E hasError \in BOOLEAN : SetErrorStateOp(hasError)
    \/ UpdateActivityOp
    \/ Advance

SpecChat == InitChat /\ [][NextChat]_vars

\* -- simulateLoading

Interval == 100

\* the durations passed: the multiples of 50 ms up to a second, and five
\* seconds, where the rounding of i / steps shows (29 / 50 * 100 is below 58)
Durations == { 50 * k : k \in 0..MaxDurationSteps } \cup {5000}

\* a progress value: a number, or NaN
Number(n) == [nan |-> FALSE, value |-> n]
NaN == [nan |-> TRUE, value |-> 0]

\* The arithmetic of simulateLoading is that of IEEE 754 binary64 numbers:
\* every / and * rounds its exact result to 53 significant binary digits, to
\* the nearest, ties to even. A natural number of any width is the sequence
\* of its binary digits, most significant first, without leading zeros; a
\* positive binary64 number is [m |-> digits, e |-> exponent], 53 digits m
\* that stand for the number m * 2^e.
SignificandDigits == 53

\* body(value), with value worked out once
With(value, Body(_)) == CHOOSE y \in { Body(x) : x \in {value} } : TRUE

RECURSIVE Iterate(_, _, _, _)
\* Step(... Step(Step(state, hi), hi - 1) ..., lo): the upper half of the
\* range is worked out before the lower half is entered, so that the
\* evaluation does not nest hi - lo deep
Iterate(Step(_, _), state, hi, lo) ==
    IF hi < lo THEN state
    ELSE IF hi = lo THEN With(state, LAMBDA s : Step(s, hi))
    ELSE With(Iterate(Step, state, hi, (hi + lo) \div 2 + 1),
              LAMBDA s : Iterate(Step, s, (hi + lo) \div 2, lo))

RECURSIVE Bits(_)
\* the binary digits of the machine integer n
Bits(n) == IF n = 0 THEN <<>> ELSE Append(Bits(n \div 2), n % 2)

RECURSIVE Value(_)
\* the machine integer with the binary digits b
Value(b) ==
    IF b = <<>> THEN 0
    ELSE 2 * Value(SubSeq(b, 1, Len(b) - 1)) + b[Len(b)]

\* a < b
Less(a, b) ==
    IF Len(a) # Len(b) THEN Len(a) < Len(b)
    ELSE \E i \in 1..Len(a) :
            a[i] < b[i] /\ \A j \in 1..(i - 1) : a[j] = b[j]

\* a * n + carry for machine integers n and carry, digit by digit from the
\* least significant
MulAdd(a, n, carry) ==
    With(Iterate(LAMBDA s, k :
                     [carry |-> (a[k] * n + s.carry) \div 2,
                      digits |-> <<(a[k] * n + s.carry) % 2>> \o s.digits],
                 [carry |-> carry, digits |-> <<>>], Len(a), 1),
         LAMBDA out : Bits(out.carry) \o out.digits)

\* a - b for a >= b, digit by digit from the least significant
Minus(a, b) ==
    With(Iterate(LAMBDA s, k :
                     LET j == k - (Len(a) - Len(b))
                         diff == a[k] - (IF j > 0 THEN b[j] ELSE 0) - s.borrow
                     IN  [borrow |-> IF diff < 0 THEN 1 ELSE 0,
                          digits |-> <<(diff + 2) % 2>> \o s.digits],
                 [borrow |-> 0, digits |-> <<>>], Len(a), 1).digits,
         LAMBDA digits :
             IF \A i \in 1..Len(digits) : digits[i] = 0 THEN <<>>
             ELSE SubSeq(digits,
                         CHOOSE i \in 1..Len(digits) :
                             /\ digits[i] = 1
                             /\ \A j \in 1..(i - 1) : digits[j] = 0,
                         Len(digits)))

\* the first n binary digits of r / b for b <= r < 2b, and the remainder
\* left after them
LongDivision(r, b, n) ==
    Iterate(LAMBDA s, k :
                IF Less(s.r, b)
                THEN [r |-> IF s.r = <<>> THEN <<>> ELSE Append(s.r, 0),
                      digits |-> Append(s.digits, 0)]
                ELSE With(Minus(s.r, b), LAMBDA rest :
                         [r |-> IF rest = <<>> THEN <<>> ELSE Append(rest, 0),
                          digits |-> Append(s.digits, 1)]),
            [r |-> r, digits |-> <<>>], n, 1)

\* the binary64 number nearest to (a / b) * 2^e for naturals a, b > 0, ties
\* to even
Divide(a, b, e) ==
    LET Zeros(n) == [i \in 1..n |-> 0]
    IN  With(IF Len(a) < Len(b) THEN a \o Zeros(Len(b) - Len(a)) ELSE a,
             LAMBDA a1 :
        With(IF Len(b) < Len(a) THEN b \o Zeros(Len(a) - Len(b)) ELSE b,
             LAMBDA b1 :
        With(Less(a1, b1), LAMBDA small :
        \* a / b = (a2 / b1) * 2^x and 1 <= a2 / b1 < 2
        With(LongDivision(IF small THEN Append(a1, 0) ELSE a1, b1,
                          SignificandDigits + 1), LAMBDA d :
        With(IF /\ d.digits[SignificandDigits + 1] = 1
                /\ (d.r # <<>> \/ d.digits[SignificandDigits] = 1)
             THEN MulAdd(SubSeq(d.digits, 1, SignificandDigits), 1, 1)
             ELSE SubSeq(d.digits, 1, SignificandDigits), LAMBDA m :
        LET lsb == e + Len(a) - Len(b) - (IF small THEN 1 ELSE 0)
                     - (SignificandDigits - 1)
        IN  IF Len(m) > SignificandDigits
            THEN [m |-> SubSeq(m, 1, SignificandDigits), e |-> lsb + 1]
            ELSE [m |-> m, e |-> lsb])))))

\* Math.floor of a binary64 number below 2^30
Floor(x) ==
    IF SignificandDigits + x.e <= 0 THEN 0
    ELSE Value(SubSeq(x.m, 1, SignificandDigits + x.e))

\* Math.min(100, Math.floor((i / steps) * 100)) with steps = duration /
\* interval, for integers i >= 0 and duration >= 0: 0 / 0 is NaN, and
\* Math.floor and Math.min keep NaN; i / 0 is Infinity for i > 0
ProgressAt(i, duration) ==
    IF duration = 0 THEN (IF i = 0 THEN NaN ELSE Number(100))
    ELSE IF i = 0 THEN Number(0)
    ELSE With(Divide(Bits(duration), Bits(Interval), 0), LAMBDA steps :
         With(Divide(Bits(i), steps.m, 0 - steps.e), LAMBDA ratio :
         With(MulAdd(ratio.m, 100, 0), LAMBDA product :
         With(Divide(product, <<1>>, ratio.e), LAMBDA scaled :
             \* a number with 8 or more digits before the point is above 100
             IF SignificandDigits + scaled.e > 7 THEN Number(100)
             ELSE With(Floor(scaled), LAMBDA floor :
                      Number(IF floor > 100 THEN 100 ELSE floor))))))

\* the loop test i <= steps: the rounding of duration / interval never moves
\* steps across an integer, which lies at least 1 / 100 away or is steps
LoopContinues(i, duration) == i * Interval <= duration

\* one iteration of the loop: onProgress(progress, ...) and the await of the
\* timeout, then i++
SimulateStep ==
    /\ input.kind = "duration"
    /\ ~simulation.done
    /\ LoopContinues(simulation.i, input.duration)
    /\ simulation' = [simulation EXCEPT
           !.i = @ + 1,
           !.reports = Append(@, ProgressAt(simulation.i, input.duration))]
    /\ last' = [op |-> "onProgress"]
    /\ UNCHANGED <<valVars, contexts, debounced, loadingState, chatState,
                   hasWindow, localStorage, authVars, now, errVars>>

\* the loop test fails and the promise of simulateLoading resolves
SimulateReturn ==
    /\ input.kind = "duration"
    /\ ~simulation.done
    /\ ~LoopContinues(simulation.i, input.duration)
    /\ simulation' = [simulation EXCEPT !.done = TRUE]
    /\ last' = [op |-> "simulateLoading"]
    /\ UNCHANGED <<valVars, contexts, debounced, loadingState, chatState,
                   hasWindow, localStorage, authVars, now, errVars>>

InitSimulate ==
    /\ InitBase
    /\ hasWindow
    /\ raw = RawNull
    /\ input \in { [kind |-> "duration", duration |-> d] : d \in Durations }

NextSimulate == SimulateStep \/ SimulateReturn

SpecSimulate == InitSimulate /\ [][NextSimulate]_vars

----------------------------------------------------------------------------
(* Properties *)

Token == GetToken(hasWindow, localStorage)
StoredUser == GetStoredUser(hasWindow, localStorage)

\* C1: every request client clears the auth store on a 401 response: after
\* a client operation that was answered with status 401 has completed,
\* getToken() and getStoredUser() both return null. The request clients are
\* the operations that send the token; healthCheck is not one of them.
C1_Clear401 ==
    (/\ last.op = "respond"
     /\ last.client \in Clients
     /\ last.status = 401)
        => (Token = Null /\ StoredUser = Null)

\* the status -> kind table of the error taxonomy
TableType(status) ==
    CASE status \in {401, 403} -> "authentication"
      [] status = 422 -> "validation"
      [] OTHER -> "server"

AlreadyTyped(e) == "type" \in DOMAIN e /\ "message" \in DOMAIN e

NetworkShaped(e) ==
    \/ ("name" \in DOMAIN e /\ e.name = "TypeError")
    \/ ("message" \in DOMAIN e /\ Includes(e.message, Fetch))

CarriesStatus(e) == "status" \in DOMAIN e /\ e.status # 0

\* C2: handleChatKitError maps an input that carries an HTTP status, and is
\* neither already typed nor a network failure, by the status table and
\* keeps the status, for inputs without a message field as well.
C2_StatusTable ==
    (/\ classified # Null
     /\ ~IsNullish(raw)
     /\ CarriesStatus(raw)
     /\ ~AlreadyTyped(raw)
     /\ ~NetworkShaped(raw))
        => /\ "returns" \in DOMAIN classified[1]
           /\ classified[1].returns.type = TableType(raw.status)
           /\ "status" \in DOMAIN classified[1].returns
           /\ classified[1].returns.status = raw.status

\* C3: ChatKitErrorBoundary.execute(fn) never propagates an exception: it
\* resolves to {success:true, data} when fn resolves and to {success:false,
\* error} when fn rejects with any value; the registered callback is invoked
\* exactly once with that error on failure and never on success.
C3_ExecuteNeverRejects ==
    (last.op = "execute")
        => /\ "success" \in DOMAIN last.result
           /\ ("resolved" \in DOMAIN last.outcome
                 => /\ last.result.success
                    /\ last.result.data = last.outcome.resolved
                    /\ last.called = <<>>)
           /\ ("rejected" \in DOMAIN last.outcome
                 => /\ ~last.result.success
                    /\ (onErrorCallback
                          => last.called = <<last.result.error>>))

\* C4: handleChatKitError returns an input that has both a type and a
\* message field unchanged, and applying it to its own result gives that
\* result again.
C4_PassThroughIdempotent ==
    /\ (classified # Null /\ ~IsNullish(raw) /\ AlreadyTyped(raw))
          => classified[1] = [returns |-> raw]
    /\ (reclassified # Null) => reclassified = classified

\* C5: after storeAuth(t, u) getToken() returns t and getStoredUser()
\* returns u; after clearAuth() both return null; isAuthenticated() is true
\* exactly when getToken() is not null; without persistent storage both
\* getters return null and storeAuth and clearAuth change nothing.
C5_AuthRoundTrip ==
    /\ (last.op = "storeAuth" /\ hasWindow)
          => (Token = Some(last.token) /\ StoredUser = Some(last.user))
    /\ (last.op = "clearAuth") => (Token = Null /\ StoredUser = Null)
    /\ IsAuthenticated(hasWindow, localStorage) <=> (Token # Null)
    /\ ~hasWindow
          => /\ Token = Null
             /\ StoredUser = Null
             /\ (last.op \in {"storeAuth", "clearAuth"}
                   => localStorage = last.before)

\* C5 witness: storeAuth has replaced a stored token and user by others
C5_Witness ==
    /\ last.op = "storeAuth"
    /\ hasWindow
    /\ GetToken(hasWindow, last.before) # Null
    /\ GetToken(hasWindow, last.before) # Some(last.token)
    /\ GetStoredUser(hasWindow, last.before) # Some(last.user)
    /\ Token = Some(last.token)
    /\ StoredUser = Some(last.user)

\* C6: the token is present if and only if the stored user is present, in
\* every state reachable by storeAuth, clearAuth, login, register, logout and
\* 401 handling from an empty store.
C6_TokenIffUser == (Token # Null) <=> (StoredUser # Null)

\* C6 witness: a successful login has stored the token and the user
C6_Witness ==
    /\ last.op = "respond"
    /\ last.client \in {"login", "register"}
    /\ Ok(last.status)
    /\ GetToken(hasWindow, last.before) = Null
    /\ Token # Null
    /\ StoredUser # Null

\* C7: a request carries the header Authorization: Bearer <token> with the
\* stored token when getToken() returns a token, and no Authorization header
\* when no token is stored. The request clients are the operations that
\* authenticate; healthCheck is unauthenticated by its contract.
C7_AuthorizationIffToken ==
    (last.op = "issue" /\ last.client \in Clients
     /\ last.fetched)
        => /\ (last.token # Null
                 => last.authorization = Some(Bearer(last.token[1])))
           /\ (last.token = Null => last.authorization = Null)

AllConversations == ParseAllConversations(localStorage).value

\* C8: the conversation store holds at most one record per id and userId in
\* every state reachable by saveConversation, removeConversation and
\* clearUserConversations from an empty store, and after a save exactly one
\* record has the saved id in that user's scope.
C8_UniqueIds ==
    /\ ParseAllConversations(localStorage).ok
    /\ \A i, j \in 1..Len(AllConversations) :
          (/\ Get(AllConversations[i], "id") = Get(AllConversations[j], "id")
           /\ Get(AllConversations[i], "userId")
                 = Get(AllConversations[j], "userId"))
             => i = j
    /\ (last.op = "saveConversation" /\ hasWindow)
          => Cardinality({ i \in 1..Len(AllConversations) :
                 /\ Get(AllConversations[i], "id") = Get(last.conversation, "id")
                 /\ Get(AllConversations[i], "userId")
                       = Get(last.conversation, "userId") })
             = 1

\* C8 witness: a conversation was saved whose id was already stored for
\* that user
C8_Witness ==
    /\ last.op = "saveConversation"
    /\ hasWindow
    /\ \E i \in 1..Len(ParseAllConversations(last.before).value) :
          LET conv == ParseAllConversations(last.before).value[i]
          IN  /\ Get(conv, "id") = Get(last.conversation, "id")
              /\ Get(conv, "userId") = Get(last.conversation, "userId")
    /\ Len(AllConversations) = 2

\* C9: after clearUserConversations(u), getUserConversations(u) is empty
\* and getUserConversations(v) is what it was before the call for every
\* other user v.
C9_ClearFrame ==
    (last.op = "clearUserConversations")
        => /\ GetUserConversations(hasWindow, localStorage, last.userId)
                = <<>>
           /\ \A v \in UserIds \ {last.userId} :
                 GetUserConversations(hasWindow, localStorage, v)
                    = GetUserConversations(hasWindow, last.before, v)

\* C9 witness: clearUserConversations(u) has removed stored conversations
\* of u
C9_Witness ==
    /\ last.op = "clearUserConversations"
    /\ GetUserConversations(hasWindow, last.before, last.userId) # <<>>
    /\ GetUserConversations(hasWindow, localStorage, last.userId) = <<>>

\* C10: saveConversation(meta) leaves every other record unchanged:
\* getUserConversations(v) is the same before and after the call for every
\* user v other than meta.userId, and every record of meta.userId with
\* another id is kept.
C10_SaveFrame ==
    (last.op = "saveConversation")
        => /\ \A v \in UserIds \ {Get(last.conversation, "userId")} :
                 GetUserConversations(hasWindow, localStorage, v)
                    = GetUserConversations(hasWindow, last.before, v)
           /\ LET before == GetUserConversations(hasWindow, last.before,
                                                 Get(last.conversation, "userId"))
                  after == GetUserConversations(hasWindow, localStorage,
                                                Get(last.conversation, "userId"))
              IN  \A i \in 1..Len(before) :
                     Get(before[i], "id") # Get(last.conversation, "id")
                        => \E j \in 1..Len(after) : after[j] = before[i]

\* C11: removeConversation(id, userId) removes exactly the record with that
\* id in that user's scope: afterwards the user's list has no record with
\* that id, the user's other records are kept in order, and the list of
\* every other user is unchanged, also when it holds a record with that id.
C11_RemoveExactly ==
    (last.op = "removeConversation")
        => /\ GetUserConversations(hasWindow, localStorage, last.userId)
                = SelectSeq(GetUserConversations(hasWindow, last.before,
                                                 last.userId),
                            LAMBDA conv : Get(conv, "id") # last.id)
           /\ \A v \in UserIds \ {last.userId} :
                 GetUserConversations(hasWindow, localStorage, v)
                    = GetUserConversations(hasWindow, last.before, v)

\* C11 witness: removeConversation has removed a stored record of the user
\* and kept the user's other record
C11_Witness ==
    /\ last.op = "removeConversation"
    /\ Len(GetUserConversations(hasWindow, last.before, last.userId)) = 2
    /\ Len(GetUserConversations(hasWindow, localStorage, last.userId)) = 1

CurrentConversationId ==
    GetCurrentConversationId(hasWindow, localStorage).returns

\* the current-conversation pointer of storage ls references a conversation
\* stored for the user
PointerReferences(ls, userId) ==
    LET currentId == GetCurrentConversationId(hasWindow, ls).returns
        all == ParseAllConversations(ls).value
    IN  /\ currentId # Null
        /\ \E i \in 1..Len(all) :
              /\ Get(all[i], "id") = currentId[1]
              /\ Get(all[i], "userId") = userId

\* C12: clearUserConversations(userId) clears the current-conversation
\* pointer if and only if the pointer referenced a conversation stored for
\* that user before the call; otherwise the pointer is left unchanged.
C12_ClearPointer ==
    (last.op = "clearUserConversations")
        => IF PointerReferences(last.before, last.userId)
           THEN CurrentConversationId = Null
           ELSE CurrentConversationId
                   = GetCurrentConversationId(hasWindow,
                                              last.before).returns

\* C12 witness: clearUserConversations has cleared a pointer that
\* referenced a conversation of the user
C12_Witness ==
    /\ last.op = "clearUserConversations"
    /\ PointerReferences(last.before, last.userId)
    /\ CurrentConversationId = Null

\* the persisted conversation list of storage ls is missing or is not the
\* JSON of an array
ListMissingOrDamaged(ls) ==
    \/ GetItem(ls, CONVERSATION_STORAGE_KEY) = Null
    \/ ~ParseAllConversations(ls).ok

\* C13: storage failures in the conversation cache are swallowed: when the
\* persisted list is missing or is not parseable, or no persistent storage
\* exists, getUserConversations returns an empty list; no cache operation
\* raises an exception; without persistent storage the mutating operations
\* change nothing.
C13_FailuresSwallowed ==
    /\ (last.op \in CacheOps) => "throws" \notin DOMAIN last.outcome
    /\ (last.op = "getUserConversations"
          /\ (~hasWindow \/ ListMissingOrDamaged(last.before)))
          => /\ "returns" \in DOMAIN last.outcome
             /\ last.outcome.returns = <<>>
    /\ (~hasWindow /\ last.op \in CacheOps) => localStorage = last.before

\* C13 witness: removeConversation has run over a persisted text that is
\* not JSON, and has left it alone
C13_Witness ==
    /\ last.op = "removeConversation"
    /\ hasWindow
    /\ GetItem(last.before, CONVERSATION_STORAGE_KEY) # Null
    /\ ~ParseAllConversations(last.before).ok
    /\ last.outcome = [ls |-> last.before]
    /\ localStorage = last.before

\* the message has none of the characters < > ' " &
Plain(message) ==
    \A i \in 1..Len(message) : message[i] \notin {"<", ">", "'", "\"", "&"}

\* the message is empty or has only whitespace
Blank(message) == \A i \in 1..Len(message) : message[i] \in Whitespace

\* C14 as stated: validateMessage finds every message of at most 4000
\* characters that has none of the characters < > ' " & valid, with no errors
C14_PlainValid ==
    (/\ last.op = "validateMessage"
     /\ Len(input.message) <= MaxMessageLength
     /\ Plain(input.message))
    => /\ last.result.returns.isValid
       /\ last.result.returns.errors = <<>>

\* C14 amended: validateMessage finds every message that is not empty after
\* trimming, has at most 4000 characters and none of the characters
\* < > ' " & valid, with no errors
C14_NonBlankPlainValid ==
    (/\ last.op = "validateMessage"
     /\ ~Blank(input.message)
     /\ Len(input.message) <= MaxMessageLength
     /\ Plain(input.message))
    => /\ last.result.returns.isValid
       /\ last.result.returns.errors = <<>>

\* C14 witness: the message of exactly 4000 characters has been validated
\* and found valid
C14_Witness ==
    /\ last.op = "validateMessage"
    /\ Len(input.message) = MaxMessageLength
    /\ Plain(input.message)
    /\ last.result.returns.isValid

\* C15: validateMessage rejects the empty message and a message of
\* whitespace only, with a non-empty errors list, and the characters
\* < > ' " & add a warning and no error: every error comes from a blank or
\* an over-long message
C15_BlankRejectedSpecialsWarn ==
    last.op = "validateMessage"
    => LET result == last.result.returns
       IN  /\ Blank(input.message)
              => ~result.isValid /\ result.errors # <<>>
           /\ ~Plain(input.message)
              => "warnings" \in DOMAIN result /\ result.warnings # <<>>
           /\ (~Blank(input.message)
               /\ Len(input.message) <= MaxMessageLength)
              => result.isValid /\ result.errors = <<>>

\* C15 witness: a message of whitespace only has been rejected
C15_Witness ==
    /\ last.op = "validateMessage"
    /\ input.message # <<>>
    /\ Blank(input.message)
    /\ ~last.result.returns.isValid
    /\ last.result.returns.errors # <<>>

Validators ==
    {"validateMessage", "validateConversationId", "validateUserId",
     "validateMetadata", "validateChatRequest", "validateChatResponse",
     "validateApiEndpoint"}

\* C16 as stated: every validator returns a result instead of throwing, and
\* in the result isValid holds exactly when errors is empty
C16_ValidIffNoErrors ==
    last.op \in Validators
    => /\ "returns" \in DOMAIN last.result
       /\ last.result.returns.isValid <=> last.result.returns.errors = <<>>

\* the warnings of a validation result, none when the property is undefined
WarningsOf(result) ==
    IF "warnings" \in DOMAIN result THEN result.warnings ELSE <<>>

\* C17 as stated: the errors of validateChatRequest are those of
\* validateMessage, then those of validateConversationId when conversation_id
\* is given, then those of validateMetadata when metadata is given, and its
\* warnings are those of validateMessage, whether the message is valid or not
C17_Concatenates ==
    (last.op = "validateChatRequest" /\ "returns" \in DOMAIN last.result)
    => LET request == input.request
           ofMessage == ValidateMessage(request.message)
           ofConversation ==
               IF "conversation_id" \in DOMAIN request
               THEN ValidateConversationId(request.conversation_id).errors
               ELSE <<>>
           ofMetadata ==
               IF "metadata" \in DOMAIN request
               THEN ValidateMetadata(request.metadata).returns.errors
               ELSE <<>>
       IN  /\ last.result.returns.errors
                = ofMessage.errors \o ofConversation \o ofMetadata
           /\ WarningsOf(last.result.returns) = WarningsOf(ofMessage)

RECURSIVE EscapedOnce(_)
\* the message without < and >, each " ' & replaced once by its entity
EscapedOnce(message) ==
    IF message = <<>> THEN <<>>
    ELSE (CASE message[1] \in {"<", ">"} -> <<>>
            [] message[1] = "\"" -> Quot
            [] message[1] = "'" -> Apos
            [] message[1] = "&" -> Amp
            [] OTHER -> <<message[1]>>) \o EscapedOnce(Tail(message))

\* C18 as stated: for a valid request prepareChatRequest returns a message
\* without < and >, in which each raw " ' & is replaced by its entity exactly
\* once, the entities themselves not escaped again
C18_EscapedOnce ==
    (/\ last.op = "prepareChatRequest"
     /\ "returns" \in DOMAIN last.result
     /\ last.result.returns.validation.isValid)
    => last.result.returns.request.message
         = EscapedOnce(input.request.message)

\* C19: when prepareChatRequest returns, the validation is that of
\* validateChatRequest; an invalid request is returned unchanged, and a valid
\* one differs from the input in its message only, which is
\* sanitizeMessage(request.message)
C19_SanitizeOnlyWhenValid ==
    (last.op = "prepareChatRequest" /\ "returns" \in DOMAIN last.result)
    => LET request == input.request
           prepared == last.result.returns
       IN  /\ prepared.validation = ValidateChatRequest(request).returns
           /\ ~prepared.validation.isValid => prepared.request = request
           /\ prepared.validation.isValid
              => /\ DOMAIN prepared.request = DOMAIN request
                 /\ \A k \in DOMAIN request \ {"message"} :
                        prepared.request[k] = request[k]
                 /\ prepared.request.message
                      = SanitizeMessage(request.message)

\* C19 witness: a valid request has been prepared and its message changed by
\* sanitization, conversation_id kept
C19_Witness ==
    /\ last.op = "prepareChatRequest"
    /\ "returns" \in DOMAIN last.result
    /\ last.result.returns.validation.isValid
    /\ "conversation_id" \in DOMAIN input.request
    /\ last.result.returns.request.message # input.request.message

\* the object has one of the reserved keys as an own property
CarriesReservedKey(metadata) ==
    OwnKeys(metadata) \cap {"__proto__", "constructor", "prototype"} # {}

\* C20 as stated: validateMetadata accepts null, undefined and every plain
\* object of at most 10000 serialized characters without a reserved own key,
\* and rejects a non-object, an object over the size limit and an object with
\* a reserved key
C20_AcceptsPlainObjects ==
    (last.op = "validateMetadata"
     /\ (input.metadata.kind = "object" => ~input.metadata.circular))
    => LET metadata == input.metadata
           accepted == /\ "returns" \in DOMAIN last.result
                       /\ last.result.returns.isValid
           rejected == /\ "returns" \in DOMAIN last.result
                       /\ ~last.result.returns.isValid
       IN  CASE metadata.kind \in {"null", "undefined"} -> accepted
             [] metadata.kind = "object" ->
                    IF \/ JsonLength(metadata) > MaxMetadataSize
                       \/ CarriesReservedKey(metadata)
                    THEN rejected ELSE accepted
             [] OTHER -> rejected

\* C21: in the browser, after login or register was answered with a 2xx
\* response whose body has access_token and user, getToken() returns that
\* access_token and getStoredUser() that user; after a network error or an
\* answer with a status that is neither 2xx nor 401 the auth store is
\* unchanged; after logout both getters return null
C21_StoreOnSuccessOnly ==
    /\ (/\ last.op = "respond"
        /\ last.client \in {"login", "register"}
        /\ hasWindow)
          => /\ (Ok(last.status) /\ last.body # Null)
                   => /\ Token = Some(last.body[1].access_token)
                      /\ StoredUser = Some(last.body[1].user)
             /\ (~Ok(last.status) /\ last.status # 401)
                   => localStorage = last.before
    /\ last.op = "logout" => (Token = Null /\ StoredUser = Null)

\* C21 witness: login was answered with a 2xx auth body while another token
\* and user were stored, and the store now holds those of the body
C21_Witness ==
    /\ last.op = "respond"
    /\ last.client = "login"
    /\ hasWindow
    /\ Ok(last.status)
    /\ last.body # Null
    /\ GetToken(hasWindow, last.before) # Null
    /\ GetToken(hasWindow, last.before) # Some(last.body[1].access_token)
    /\ Token = Some(last.body[1].access_token)
    /\ StoredUser = Some(last.body[1].user)

\* C22 as stated: apiRequest never rejects and returns {data, error, status}
\* for every outcome of the HTTP call; for a 2xx response, with or without a
\* body, error is null and status is the response status; for every other
\* response error is non-null and data is null; a transport failure gives
\* status 0 with a message
C22_SuccessIff2xx ==
    (last.op = "respond" /\ last.client = "apiRequest")
    => /\ DOMAIN last.result = {"data", "error", "status"}
       /\ Ok(last.status)
             => /\ last.result.error = Null
                /\ last.result.status = last.status
       /\ (~Ok(last.status) /\ last.status # 0)
             => /\ last.result.error # Null
                /\ last.result.data = Null
                /\ last.result.status = last.status
       /\ last.status = 0
             => /\ last.result.status = 0
                /\ last.result.error # Null
                /\ last.result.data = Null

\* C24 as stated: for an input that is not already typed, handleChatKitError
\* returns type network without a status when the input has name 'TypeError'
\* or a message containing 'fetch', whatever status it carries; and returns
\* type unknown when the input has neither that shape nor a non-zero status
C24_NetworkBeforeStatus ==
    (classified # Null /\ ~IsNullish(raw) /\ ~AlreadyTyped(raw))
    => /\ NetworkShaped(raw)
             => /\ "returns" \in DOMAIN classified[1]
                /\ classified[1].returns.type = "network"
                /\ "status" \notin DOMAIN classified[1].returns
       /\ (~NetworkShaped(raw) /\ ~CarriesStatus(raw))
             => /\ "returns" \in DOMAIN classified[1]
                /\ classified[1].returns.type = "unknown"

\* C25 as stated: the error that validateApiResponse raises for a failed
\* response, normalised by handleChatKitError in execute, has type
\* authentication for status 401 and 403, validation for 422, server for 429
\* and 5xx
C25_PipelineByStatus ==
    (last.op = "validateApiResponse" /\ ~Ok(last.status))
    => /\ "success" \in DOMAIN last.result
       /\ ~last.result.success
       /\ last.result.error.type = TableType(last.status)

\* the ids of the conversations in a list
IdsOf(list) == { Get(list[i], "id") : i \in 1..Len(list) }

\* C23: the upsert of saveConversation is not atomic: the write step stores
\* the list that the call read earlier, with its own conversation upserted,
\* whatever other contexts have stored since the read; no lock or retry
\* brings their records back, so the last write wins
C23_LastWriteWins ==
    last.op = "saveConversation.write"
    => /\ ParseAllConversations(localStorage).ok
       /\ IdsOf(AllConversations)
            = IdsOf(last.existing) \cup {Get(last.conversation, "id")}
       /\ \A i \in 1..Len(AllConversations) :
             Get(AllConversations[i], "id") # Get(last.conversation, "id")
             => \E j \in 1..Len(last.existing) :
                   last.existing[j] = AllConversations[i]

\* C23 witness: two contexts have saved conversations with different ids for
\* the same user with their read and write steps interleaved, both calls are
\* over, and only the conversation of the last writer is stored
C23_Witness ==
    /\ last.op = "saveConversation.write"
    /\ contexts = IdleContexts
    /\ last.existing = <<>>
    /\ LET before == ParseAllConversations(last.before).value
       IN  /\ Len(before) = 1
           /\ Get(before[1], "id") # Get(last.conversation, "id")
           /\ Get(before[1], "userId") = Get(last.conversation, "userId")
    /\ Len(AllConversations) = 1
    /\ Get(AllConversations[1], "id") = Get(last.conversation, "id")

\* the fetch calls awaiting their answer, without the i-th
WithoutRequest(i) ==
    SubSeq(inflight, 1, i - 1) \o SubSeq(inflight, i + 1, Len(inflight))

\* C26 as stated: a 401 answer to a request that was not sent with the token
\* now stored (it was sent before the login, with an older token or with
\* none) leaves the stored token and user in place
C26_StaleUnauthorizedKeepsToken ==
    [][(/\ Token # Null
        /\ last'.op = "respond"
        /\ last'.status = 401
        /\ \E i \in 1..Len(inflight) :
              /\ inflight' = WithoutRequest(i)
              /\ inflight[i].authorization # Some(Bearer(Token[1])))
       => (Token' = Token /\ StoredUser' = StoredUser)]_vars

\* the positions of the calls in the log of the debounced function
CallsIn(log) == { p \in 1..Len(log) : log[p].kind = "call" }
RunsIn(log) == { p \in 1..Len(log) : log[p].kind = "run" }

\* the last call before position p of the log, 0 when there is none
LastCallBefore(log, p) ==
    IF \E c \in CallsIn(log) : c < p
    THEN CHOOSE c \in CallsIn(log) :
             c < p /\ \A k \in CallsIn(log) : k < p => k <= c
    ELSE 0

\* func runs with the arguments of the last call, not before delay has
\* elapsed since that call, and once for it; and no run falls between two
\* calls that are less than delay apart
DebounceSafe ==
    LET log == debounced.log
    IN  /\ \A p \in RunsIn(log) :
              LET c == LastCallBefore(log, p)
              IN  /\ c # 0
                  /\ log[p].args = log[c].args
                  /\ log[p].at >= log[c].at + input.delay
                  /\ \A q \in RunsIn(log) : c < q /\ q <= p => q = p
        /\ \A c1, c2 \in CallsIn(log) :
              (c1 < c2 /\ log[c2].at - log[c1].at < input.delay)
              => \A p \in RunsIn(log) : ~(c1 < p /\ p < c2)

\* C27: the debounced function runs func only asynchronously, with the
\* arguments of the last call and not before delay has elapsed since it;
\* within a burst of calls less than delay apart func does not run, and once
\* the calls have stopped the pending timer runs func, exactly once
C27_DebounceRunsOnceAfterQuiet ==
    /\ [](Debouncing => DebounceSafe)
    /\ [][last'.op = "debounced"
            => debounced'.log = Append(debounced.log,
                   [kind |-> "call", at |-> now, args |-> last'.args])]_vars
    /\ (debounced.timers # {}) ~> (debounced.timers = {})

\* C27 witness: a burst of two calls less than delay apart, with different
\* arguments, was followed by one run with the arguments of the second call
C27_Witness ==
    /\ Debouncing
    /\ Len(debounced.log) = 3
    /\ debounced.log[1].kind = "call"
    /\ debounced.log[2].kind = "call"
    /\ debounced.log[3].kind = "run"
    /\ debounced.log[2].at > debounced.log[1].at
    /\ debounced.log[2].at - debounced.log[1].at < input.delay
    /\ debounced.log[1].args # debounced.log[2].args
    /\ debounced.log[3].args = debounced.log[2].args
    /\ debounced.timers = {}

\* the error of a loading state, Null when none is set
ErrorOf(state) == IF "error" \in DOMAIN state THEN Some(state.error) ELSE Null

\* C28: in every reachable state of useLoadingState an error being set
\* implies isLoading is false; setError sets the error and turns isLoading
\* off, keeping progress and message; updateProgress keeps error and
\* isLoading; startLoading, stopLoading and reset give a state with no error
C28_ErrorImpliesNotLoading ==
    /\ ErrorOf(loadingState) # Null => ~loadingState.isLoading
    /\ last.op = "setError"
          => /\ ErrorOf(loadingState) = last.args[1]
             /\ ~loadingState.isLoading
             /\ loadingState.progress = last.before.progress
             /\ loadingState.message = last.before.message
    /\ last.op = "updateProgress"
          => /\ ErrorOf(loadingState) = ErrorOf(last.before)
             /\ loadingState.isLoading = last.before.isLoading
    /\ last.op \in {"startLoading", "stopLoading", "reset"}
          => ErrorOf(loadingState) = Null

\* C28 witness: setError was called while loading with progress under way,
\* and the state now has the error, is not loading, and keeps the progress
C28_Witness ==
    /\ last.op = "setError"
    /\ last.before.isLoading
    /\ last.before.progress = 50
    /\ ErrorOf(loadingState) = Some("boom")
    /\ ~loadingState.isLoading
    /\ loadingState.progress = 50

\* C29 as stated: in every reachable state of useChatState isActive implies
\* isConnected, and disconnect turns both off
C29_ActiveImpliesConnected ==
    /\ chatState.isActive => chatState.isConnected
    /\ last.op = "disconnect"
          => ~chatState.isActive /\ ~chatState.isConnected

\* C30 as stated: when simulateLoading has returned, the progress values it
\* reported are integers in 0..100 that start at 0, never decrease and end
\* at 100, for every duration >= 0
C30_ProgressReaches100 ==
    simulation.done
    => LET reports == simulation.reports
       IN  /\ reports # <<>>
           /\ \A k \in 1..Len(reports) :
                 ~reports[k].nan /\ reports[k].value \in 0..100
           /\ reports[1].value = 0
           /\ \A k \in 1..(Len(reports) - 1) :
                 reports[k].value <= reports[k + 1].value
           /\ reports[Len(reports)].value = 100

====
